---- MODULE Spec2Model ----
(***************************************************************************)
(* takopi: the JSONL subprocess runner (runner.py) and its per-session     *)
(* locks.  Every invocation of runner.run is an async generator; the       *)
(* model follows one generator from call to end, one action per stretch of *)
(* code between two suspension points (await / yield).                     *)
(* The chat session store (telegram/chat_sessions.py) follows: one action  *)
(* per store operation, each running under the store's mutex.              *)
(***************************************************************************)
EXTENDS Integers, Sequences, FiniteSets, TLC

VARIABLES
    pc,                  \* position of each invocation in run_locked / run_impl
    resume,              \* the resume argument of run(prompt, resume)
    child,               \* the child process of the invocation
    rc,                  \* run_impl: rc
    nlines,              \* stdout lines received so far
    raw_line,            \* run_impl: raw_line, the line in hand
    found_session,       \* run_impl: found_session
    did_emit_completed,  \* run_impl: did_emit_completed
    note_seq,            \* JsonlRunState.note_seq
    events,              \* run_impl: events not yet handled by `for evt in events`
    out,                 \* the events yielded to the consumer, in order
    lock,                \* run_locked / run_with_resume_lock: lock
    acquired,            \* run_locked: acquired (for a resumed run: inside `async with lock`)
    session_locks,       \* SessionLockMixin.session_locks
    owner,               \* anyio.Lock: the task that owns the lock
    waiters,             \* anyio.Lock: the tasks queued in acquire()
    foreign_release,     \* history: some release() was called by a task that did not own the lock
    cwd,                 \* ChatSessionStore._state.cwd
    chats,               \* ChatSessionStore._state.chats
    dirty,               \* the store's state in memory has changes that no _save_locked() has written
    clock,               \* the latest reading of time()
    nops,                \* store operations performed so far
    last,                \* the latest store operation: its name, arguments and return value
    task,                \* each task that calls the store: its operation and its position in it
    store_lock,          \* ChatSessionStore._lock: the task inside `async with self._lock`
    config,              \* the config dict handed to migrate_config, migrated in place
    migration,           \* the calls of migrate_config so far: the first input, the latest result
    inject_dir,          \* inject_dir: the content of each *.json file, and the *.bad files
    watcher,             \* watch_inject_dir: its position, `files` not yet handled, the file in hand
    inject_log,          \* what the watcher has called since it listed the directory, in order
    dispatched,          \* history: the files run_job has been called for
    renderer,            \* ExecProgressRenderer: action_count, recent_actions, the ids seen, last_resume, last_title
    noted,               \* the calls of note_event so far: their number, the latest event, what it returned
    mixin,               \* ResumeTokenMixin: a message text, the tokens its lines were formatted from, what extract_resume found
    reader,              \* iter_bytes_lines: the chunks to come, the buffer, the lines yielded
    record,              \* RedactTokenFilter.filter: the LogRecord before and after
    reply                \* the session commands: the latest command and what it replied

runner_vars == <<pc, resume, child, rc, nlines, raw_line, found_session, did_emit_completed,
                 note_seq, events, out, lock, acquired, session_locks, owner,
                 waiters, foreign_release>>
store_vars == <<cwd, chats, dirty, clock, nops, last>>
task_vars == <<task, store_lock>>
config_vars == <<config, migration>>
inject_vars == <<inject_dir, watcher, inject_log, dispatched>>
render_vars == <<renderer, noted>>
aux_vars == <<mixin, reader, record, reply>>
vars == <<runner_vars, store_vars, task_vars, config_vars, inject_vars, render_vars, aux_vars>>

\* what the actions of each part leave alone
runner_frame == <<store_vars, task_vars, config_vars, inject_vars, render_vars, aux_vars>>
store_frame == <<runner_vars, task_vars, config_vars, inject_vars, render_vars, aux_vars>>
task_frame == <<runner_vars, config_vars, inject_vars, render_vars, aux_vars>>
config_frame == <<runner_vars, store_vars, task_vars, inject_vars, render_vars, aux_vars>>
inject_frame == <<runner_vars, store_vars, task_vars, config_vars, render_vars, aux_vars>>
render_frame == <<runner_vars, store_vars, task_vars, config_vars, inject_vars, aux_vars>>
aux_frame == <<runner_vars, store_vars, task_vars, config_vars, inject_vars, render_vars>>
command_frame == <<runner_vars, task_vars, config_vars, inject_vars, render_vars,
                   mixin, reader, record>>

-----------------------------------------------------------------------------
(* Bounds *)

MaxLines == 3       \* stdout lines one invocation reads (single-invocation runs)
MaxLockLines == 2   \* stdout lines one invocation reads (concurrent runs)

Invocations == {1, 2}
NoInv == 0

-----------------------------------------------------------------------------
(* Data model: ResumeToken and TakopiEvent *)

ResumeToken(e, v) == [engine |-> e, value |-> v]
NONE == [engine |-> "", value |-> ""]

Engine == "codex"          \* self.engine of the runner under study
OtherEngine == "claude"

S1 == ResumeToken(Engine, "s1")
S2 == ResumeToken(Engine, "s2")
Foreign == ResumeToken(OtherEngine, "s1")
Tokens == {S1, S2, Foreign}

tag == Engine

Event(kind, engine, token, phase, akind, id, ok, detail, message, answer, error) ==
    [kind |-> kind, engine |-> engine, resume |-> token, phase |-> phase,
     akind |-> akind, id |-> id, ok |-> ok, detail |-> detail,
     message |-> message, answer |-> answer, error |-> error]

StartedEvent(e, t) ==
    Event("started", e, t, "", "", "", TRUE, {}, "", "", "")

ActionEvent(id, akind, phase, ok, detail, message) ==
    Event("action", Engine, NONE, phase, akind, id, ok, detail, message, "", "")

CompletedEvent(ok, answer, token, error) ==
    Event("completed", Engine, token, "", "", "", ok, {}, "", answer, error)

\* what a concrete engine's translate() hands back for a well-formed line
ChildAction == ActionEvent("i1", "command", "started", TRUE, {}, "ls")
ChildCompleted == CompletedEvent(TRUE, "ok", NONE, "")

IsStarted(e) == e.kind = "started"
IsCompleted(e) == e.kind = "completed"
IsWarning(e) == e.kind = "action" /\ e.akind = "warning"

-----------------------------------------------------------------------------
(* Synthetic events *)

\* (the id made from note_seq as it was before the increment)
next_note_id_stale(n) == tag \o ".note." \o ToString(n)
next_note_id(n) == tag \o ".note." \o ToString(n + 1)

note_event(message, n, detail) ==
    ActionEvent(next_note_id(n), "warning", "completed", FALSE, detail, message)

invalid_json_events_silent(n) == <<>>

invalid_json_events(n) ==
    <<note_event("invalid JSON from " \o tag \o "; ignoring line", n, {"line"})>>

decode_error_events(n) ==
    <<note_event("invalid event from " \o tag \o "; ignoring line", n, {"line", "error"})>>

translate_error_events(n) ==
    <<note_event(tag \o " translation error; ignoring event", n, {"error", "type"})>>

resume_for_completed_supplied(found, supplied) == supplied

resume_for_completed(found, supplied) == IF found # NONE THEN found ELSE supplied

ProcessErrorMessage(code) == tag \o " failed (rc=" \o ToString(code) \o ")."

process_error_events(code, supplied, found, n) ==
    <<note_event(ProcessErrorMessage(code), n, {}),
      CompletedEvent(FALSE, "", resume_for_completed(found, supplied),
                     ProcessErrorMessage(code))>>

stream_end_events_none(supplied, found) == <<>>

StreamEndMessage == tag \o " finished without a result event"

stream_end_events(supplied, found) ==
    <<CompletedEvent(FALSE, "", resume_for_completed(found, supplied), StreamEndMessage)>>

-----------------------------------------------------------------------------
(* The child's stdout, one line at a time *)

Line(form, evs) == [form |-> form, events |-> evs]

Blank == Line("blank", <<>>)                     \* strips to nothing
Invalid == Line("invalid", <<>>)                 \* json.loads raises JSONDecodeError
Undecodable == Line("undecodable", <<>>)         \* decode_jsonl raises
Untranslatable == Line("untranslatable", <<>>)   \* translate raises
Json(evs) == Line("json", evs)                   \* translate returns evs
NoLine == Line("none", <<>>)                     \* before the first line

\* the lines a child may write when one invocation is studied alone
RunLines ==
    {Blank, Invalid, Undecodable, Untranslatable, Json(<<>>),
     Json(<<StartedEvent(Engine, S1)>>),
     Json(<<StartedEvent(Engine, S2)>>),
     Json(<<StartedEvent(OtherEngine, Foreign)>>),
     Json(<<StartedEvent(Engine, Foreign)>>),
     Json(<<ChildAction>>),
     Json(<<ChildCompleted>>),
     Json(<<StartedEvent(Engine, S1), StartedEvent(Engine, S1)>>),
     Json(<<StartedEvent(Engine, S1), ChildCompleted>>),
     Json(<<ChildAction, ChildCompleted>>),
     Json(<<ChildCompleted, ChildAction>>),
     Json(<<ChildCompleted, StartedEvent(Engine, S2)>>)}

\* the lines a child may write when concurrent invocations are studied
LockLines ==
    {Json(<<StartedEvent(Engine, S1)>>),
     Json(<<StartedEvent(Engine, S2)>>),
     Json(<<ChildAction>>),
     Json(<<ChildCompleted>>)}

ExitCodes == {0, 2, -9}

\* run_impl, the body of `async for raw_line` up to `for evt in events`:
\* the events of one line and the note counter after it
LineEvents(line, n) ==
    CASE line.form = "blank" -> [events |-> <<>>, note_seq |-> n]
      [] line.form = "undecodable" -> [events |-> decode_error_events(n), note_seq |-> n + 1]
      [] line.form = "invalid" -> [events |-> invalid_json_events(n), note_seq |-> n + 1]
      [] line.form = "untranslatable" -> [events |-> translate_error_events(n), note_seq |-> n + 1]
      [] OTHER -> [events |-> line.events, note_seq |-> n]

-----------------------------------------------------------------------------
(* Session-identity validation *)

Verdict(raises, found, emit) == [raises |-> raises, found |-> found, emit |-> emit]

\* without the comparison against the supplied resume
handle_started_event_unchecked(event, expected_session, found) ==
    IF event.engine # Engine THEN Verdict(TRUE, found, FALSE)
    ELSE IF found = NONE THEN Verdict(FALSE, event.resume, TRUE)
    ELSE IF event.resume # found THEN Verdict(TRUE, found, FALSE)
    ELSE Verdict(FALSE, found, FALSE)

\* a repeated SessionStarted is passed on
handle_started_event_repeat(event, expected_session, found) ==
    IF event.engine # Engine THEN Verdict(TRUE, found, FALSE)
    ELSE IF expected_session # NONE /\ event.resume # expected_session
         THEN Verdict(TRUE, found, FALSE)
    ELSE IF found = NONE THEN Verdict(FALSE, event.resume, TRUE)
    ELSE IF event.resume # found THEN Verdict(TRUE, found, FALSE)
    ELSE Verdict(FALSE, found, TRUE)

handle_started_event(event, expected_session, found) ==
    IF event.engine # Engine THEN Verdict(TRUE, found, FALSE)
    ELSE IF expected_session # NONE /\ event.resume # expected_session
         THEN Verdict(TRUE, found, FALSE)
    ELSE IF found = NONE THEN Verdict(FALSE, event.resume, TRUE)
    ELSE IF event.resume # found THEN Verdict(TRUE, found, FALSE)
    ELSE Verdict(FALSE, found, FALSE)

-----------------------------------------------------------------------------
(* Session locks: the weak-valued registry and anyio.Lock *)

LockKey_engine(token) == token.engine \o ":"

LockKey(token) == token.engine \o ":" \o token.value
Keys == {LockKey(t) : t \in Tokens}

\* a lock object is known by its key and by the invocation whose lock_for made it
LockIds == [key : Keys, by : Invocations]
NoLock == [key |-> "", by |-> NoInv]

lock_for_new(i, token) == [key |-> LockKey(token), by |-> i]

lock_for(i, token) ==
    IF session_locks[LockKey(token)] # NoLock
    THEN session_locks[LockKey(token)]
    ELSE [key |-> LockKey(token), by |-> i]

\* anyio.Lock.acquire returns at once exactly when nobody owns or awaits the lock
LockFree(l) == owner[l] = NoInv /\ waiters[l] = <<>>

\* (a release that wakes nobody)
OwnerAfterRelease_idle(l) == [owner EXCEPT ![l] = NoInv]

\* anyio.Lock.release hands the lock to the longest-waiting task
OwnerAfterRelease(l) ==
    [owner EXCEPT ![l] = IF waiters[l] = <<>> THEN NoInv ELSE Head(waiters[l])]

WaitersAfterRelease(l) ==
    [waiters EXCEPT ![l] = IF waiters[l] = <<>> THEN <<>> ELSE Tail(waiters[l])]

Without(s, i) == SelectSeq(s, LAMBDA j : j # i)

\* the release on the way out: run_locked's finally, resp. leaving `async with lock`
ReleaseNeeded_always(i) == lock[i] # NoLock

ReleaseNeeded(i) == acquired[i] /\ lock[i] # NoLock

Waiting(i) == pc[i] \in {"wait_resume", "wait_fresh"}

\* the registry holds its locks weakly: an entry lasts as long as some live
\* generator frame still refers to the lock
Referenced(l, i) == \E j \in Invocations \ {i} : lock[j] = l

-----------------------------------------------------------------------------
(* How an invocation ends *)

\* The generator ends as `how` ("done", "raised" or "cancelled"): the finally
\* of run_locked resp. the exit of `async with lock` releases the lock, a
\* cancelled acquire() leaves the queue (giving the lock back when it was
\* already handed over), the frame drops its reference to the lock.
End(i, how) ==
    LET l == lock[i] IN
    /\ pc' = [pc EXCEPT ![i] = how]
    /\ events' = [events EXCEPT ![i] = <<>>]
    /\ IF ReleaseNeeded(i)
       THEN /\ owner' = OwnerAfterRelease(l)
            /\ waiters' = WaitersAfterRelease(l)
            /\ foreign_release' = (foreign_release \/ owner[l] # i)
       ELSE IF Waiting(i) /\ owner[l] = i
       THEN /\ owner' = OwnerAfterRelease(l)
            /\ waiters' = WaitersAfterRelease(l)
            /\ UNCHANGED foreign_release
       ELSE IF Waiting(i)
       THEN /\ waiters' = [waiters EXCEPT ![l] = Without(@, i)]
            /\ UNCHANGED <<owner, foreign_release>>
       ELSE UNCHANGED <<owner, waiters, foreign_release>>
    /\ lock' = [lock EXCEPT ![i] = NoLock]
    /\ acquired' = [acquired EXCEPT ![i] = FALSE]
    /\ session_locks' =
          IF l # NoLock /\ session_locks[l.key] = l /\ ~Referenced(l, i)
          THEN [session_locks EXCEPT ![l.key] = NoLock]
          ELSE session_locks

\* `for evt in events` goes on with `rest`, or the line is finished
Advance(i, rest) ==
    /\ events' = [events EXCEPT ![i] = rest]
    /\ pc' = [pc EXCEPT ![i] = IF rest = <<>> THEN "read" ELSE "emit"]

-----------------------------------------------------------------------------
(* Actions *)

InitRunner ==
    /\ pc = [i \in Invocations |-> "idle"]
    /\ resume = [i \in Invocations |-> NONE]
    /\ child = [i \in Invocations |-> "none"]
    /\ rc = [i \in Invocations |-> 0]
    /\ nlines = [i \in Invocations |-> 0]
    /\ raw_line = [i \in Invocations |-> NoLine]
    /\ found_session = [i \in Invocations |-> NONE]
    /\ did_emit_completed = [i \in Invocations |-> FALSE]
    /\ note_seq = [i \in Invocations |-> 0]
    /\ events = [i \in Invocations |-> <<>>]
    /\ out = [i \in Invocations |-> <<>>]
    /\ lock = [i \in Invocations |-> NoLock]
    /\ acquired = [i \in Invocations |-> FALSE]
    /\ session_locks = [k \in Keys |-> NoLock]
    /\ owner = [l \in LockIds |-> NoInv]
    /\ waiters = [l \in LockIds |-> <<>>]
    /\ foreign_release = FALSE

\* run(prompt, r) up to its first suspension: run_locked, and for a supplied
\* resume run_with_resume_lock up to `async with lock`
Call(i, r) ==
    /\ UNCHANGED runner_frame
    /\ pc[i] = "idle"
    /\ resume' = [resume EXCEPT ![i] = r]
    /\ UNCHANGED <<child, rc, nlines, raw_line, found_session, did_emit_completed, note_seq, out>>
    /\ IF r = NONE
       THEN /\ pc' = [pc EXCEPT ![i] = "spawn"]
            /\ UNCHANGED <<events, lock, acquired, session_locks, owner, waiters,
                           foreign_release>>
       ELSE IF r.engine # Engine
       THEN End(i, "raised")
       ELSE LET l == lock_for(i, r) IN
            /\ lock' = [lock EXCEPT ![i] = l]
            /\ session_locks' = [session_locks EXCEPT ![LockKey(r)] = l]
            /\ UNCHANGED <<events, foreign_release>>
            /\ IF LockFree(l)
               THEN /\ owner' = [owner EXCEPT ![l] = i]
                    /\ acquired' = [acquired EXCEPT ![i] = TRUE]
                    /\ pc' = [pc EXCEPT ![i] = "spawn"]
                    /\ UNCHANGED waiters
               ELSE /\ waiters' = [waiters EXCEPT ![l] = Append(@, i)]
                    /\ pc' = [pc EXCEPT ![i] = "wait_resume"]
                    /\ UNCHANGED <<owner, acquired>>

\* `async with lock` is entered once release() has handed the lock over
EnterLock(i) ==
    /\ UNCHANGED runner_frame
    /\ pc[i] = "wait_resume"
    /\ owner[lock[i]] = i
    /\ pc' = [pc EXCEPT ![i] = "spawn"]
    /\ acquired' = [acquired EXCEPT ![i] = TRUE]
    /\ UNCHANGED <<resume, child, rc, nlines, raw_line, found_session, did_emit_completed,
                   note_seq, events, out, lock, session_locks, owner, waiters,
                   foreign_release>>

\* run_impl from its start to the task group: the child is spawned and its
\* pipes are checked
Spawn(i, pipes) ==
    /\ UNCHANGED runner_frame
    /\ pc[i] = "spawn"
    /\ UNCHANGED <<resume, rc, nlines, raw_line, found_session, did_emit_completed, note_seq, out>>
    /\ IF pipes
       THEN /\ child' = [child EXCEPT ![i] = "running"]
            /\ pc' = [pc EXCEPT ![i] = "read"]
            /\ UNCHANGED <<events, lock, acquired, session_locks, owner, waiters,
                           foreign_release>>
       ELSE /\ child' = [child EXCEPT ![i] = "nopipes"]
            /\ End(i, "raised")

\* `if did_emit_completed: continue`
SkipLine_never(i) == FALSE

SkipLine(i) == did_emit_completed[i]

\* one stdout line arrives and is decoded and translated
ReadLine(i, line, max) ==
    /\ UNCHANGED runner_frame
    /\ pc[i] = "read"
    /\ nlines[i] < max
    /\ nlines' = [nlines EXCEPT ![i] = @ + 1]
    /\ raw_line' = [raw_line EXCEPT ![i] = line]
    /\ UNCHANGED <<resume, child, rc, found_session, did_emit_completed, out, lock,
                   acquired, session_locks, owner, waiters, foreign_release>>
    /\ IF SkipLine(i)
       THEN UNCHANGED <<pc, events, note_seq>>
       ELSE /\ note_seq' = [note_seq EXCEPT ![i] = LineEvents(line, @).note_seq]
            /\ Advance(i, LineEvents(line, note_seq[i]).events)

\* run_locked, for a run without resume: `if lock is None and isinstance(evt, StartedEvent)`
NeedsLock_never(i, evt) == FALSE

NeedsLock(i, evt) == resume[i] = NONE /\ lock[i] = NoLock /\ IsStarted(evt)

\* the event `evt` leaves run_impl and passes through run_locked to the consumer
Deliver(i, evt, rest) ==
    IF NeedsLock(i, evt)
    THEN LET l == lock_for(i, evt.resume) IN
         /\ lock' = [lock EXCEPT ![i] = l]
         /\ session_locks' = [session_locks EXCEPT ![LockKey(evt.resume)] = l]
         /\ IF LockFree(l)
            THEN /\ owner' = [owner EXCEPT ![l] = i]
                 /\ acquired' = [acquired EXCEPT ![i] = TRUE]
                 /\ out' = [out EXCEPT ![i] = Append(@, evt)]
                 /\ Advance(i, rest)
                 /\ UNCHANGED waiters
            ELSE /\ waiters' = [waiters EXCEPT ![l] = Append(@, i)]
                 /\ pc' = [pc EXCEPT ![i] = "wait_fresh"]
                 /\ events' = [events EXCEPT ![i] = <<evt>> \o rest]
                 /\ UNCHANGED <<owner, acquired, out>>
    ELSE /\ out' = [out EXCEPT ![i] = Append(@, evt)]
         /\ Advance(i, rest)
         /\ UNCHANGED <<lock, acquired, session_locks, owner, waiters>>

\* one turn of `for evt in events`
Emit(i) ==
    /\ UNCHANGED runner_frame
    /\ pc[i] = "emit"
    /\ LET evt == Head(events[i])
           rest == Tail(events[i])
           v == handle_started_event(evt, resume[i], found_session[i])
       IN
       /\ UNCHANGED <<resume, rc, nlines, raw_line, note_seq>>
       /\ IF IsStarted(evt) /\ v.raises
          THEN /\ End(i, "raised")
               /\ child' = [child EXCEPT ![i] = "reaped"]
               /\ UNCHANGED <<found_session, did_emit_completed, out>>
          ELSE IF IsStarted(evt) /\ ~v.emit
          THEN /\ found_session' = [found_session EXCEPT ![i] = v.found]
               /\ Advance(i, rest)
               /\ UNCHANGED <<child, did_emit_completed, out, lock, acquired,
                              session_locks, owner, waiters, foreign_release>>
          ELSE IF IsStarted(evt)
          THEN /\ found_session' = [found_session EXCEPT ![i] = v.found]
               /\ Deliver(i, evt, rest)
               /\ UNCHANGED <<child, did_emit_completed, foreign_release>>
          ELSE IF IsCompleted(evt)
          THEN /\ did_emit_completed' = [did_emit_completed EXCEPT ![i] = TRUE]
               /\ Deliver(i, evt, <<>>)
               /\ UNCHANGED <<child, found_session, foreign_release>>
          ELSE /\ Deliver(i, evt, rest)
               /\ UNCHANGED <<child, found_session, did_emit_completed, foreign_release>>

\* run_locked goes on after `await lock.acquire()` and yields the SessionStarted
AcquireFresh(i) ==
    /\ UNCHANGED runner_frame
    /\ pc[i] = "wait_fresh"
    /\ owner[lock[i]] = i
    /\ acquired' = [acquired EXCEPT ![i] = TRUE]
    /\ out' = [out EXCEPT ![i] = Append(@, Head(events[i]))]
    /\ Advance(i, Tail(events[i]))
    /\ UNCHANGED <<resume, child, rc, nlines, raw_line, found_session, did_emit_completed,
                   note_seq, lock, session_locks, owner, waiters, foreign_release>>

\* stdout is at its end
StdoutEof(i) ==
    /\ UNCHANGED runner_frame
    /\ pc[i] = "read"
    /\ pc' = [pc EXCEPT ![i] = "wait_exit"]
    /\ UNCHANGED <<resume, child, rc, nlines, raw_line, found_session, did_emit_completed,
                   note_seq, events, out, lock, acquired, session_locks, owner,
                   waiters, foreign_release>>

\* proc.wait() returns `code`; run_impl from there to its next yield or its return
ProcExit(i, code) ==
    /\ UNCHANGED runner_frame
    /\ pc[i] = "wait_exit"
    /\ rc' = [rc EXCEPT ![i] = code]
    /\ UNCHANGED <<resume, nlines, raw_line, found_session, did_emit_completed, out>>
    /\ IF did_emit_completed[i]
       THEN /\ End(i, "done")
            /\ child' = [child EXCEPT ![i] = "exited"]
            /\ UNCHANGED note_seq
       ELSE /\ child' = [child EXCEPT ![i] = "exited"]
            /\ pc' = [pc EXCEPT ![i] = "final"]
            /\ events' = [events EXCEPT ![i] =
                  IF code # 0
                  THEN process_error_events(code, resume[i], found_session[i], note_seq[i])
                  ELSE stream_end_events(resume[i], found_session[i])]
            /\ note_seq' = [note_seq EXCEPT ![i] = IF code # 0 THEN @ + 1 ELSE @]
            /\ UNCHANGED <<lock, acquired, session_locks, owner, waiters, foreign_release>>

\* the events made after the child's exit are yielded one by one
EmitFinal(i) ==
    /\ UNCHANGED runner_frame
    /\ pc[i] = "final"
    /\ events[i] # <<>>
    /\ out' = [out EXCEPT ![i] = Append(@, Head(events[i]))]
    /\ events' = [events EXCEPT ![i] = Tail(@)]
    /\ UNCHANGED <<pc, resume, child, rc, nlines, raw_line, found_session, did_emit_completed,
                   note_seq, lock, acquired, session_locks, owner, waiters,
                   foreign_release>>

\* the consumer asks for one more event and run_impl returns
Return(i) ==
    /\ UNCHANGED runner_frame
    /\ pc[i] = "final"
    /\ events[i] = <<>>
    /\ End(i, "done")
    /\ UNCHANGED <<resume, child, rc, nlines, raw_line, found_session, did_emit_completed,
                   note_seq, out>>

\* where a running generator can be cancelled or closed: every await and yield
Cancellable(i) ==
    pc[i] \in {"wait_resume", "spawn", "read", "emit", "wait_fresh", "wait_exit", "final"}

\* the consumer's task is cancelled, or the consumer closes the generator
Cancel(i) ==
    /\ UNCHANGED runner_frame
    /\ Cancellable(i)
    /\ End(i, "cancelled")
    /\ child' = [child EXCEPT ![i] = IF @ = "running" THEN "reaped" ELSE @]
    /\ UNCHANGED <<resume, rc, nlines, raw_line, found_session, did_emit_completed, note_seq, out>>

Resumes == {NONE, S1, S2, Foreign}

LockExitCodes == {0, 2}

-----------------------------------------------------------------------------
(* The chat session store: data *)

MAX_SESSIONS_PER_CHAT == 20

MaxTicks == 1   \* how far time() advances while the store is in use
MaxOps == 2     \* store operations in one run

NoneStr == "<None>"      \* None, where the code has `str | None`
NoOwner == -1            \* owner_id None

SessionInfo(r, e, title, first_message, created_at, updated_at) ==
    [resume |-> r, engine |-> e, title |-> title, first_message |-> first_message,
     created_at |-> created_at, updated_at |-> updated_at]

\* a dict[str, str]: a function on the keys it holds
EmptyMap == [k \in {} |-> NoneStr]
MapGet(m, k) == IF k \in DOMAIN m THEN m[k] ELSE NoneStr
MapSet(m, k, v) == [x \in DOMAIN m \cup {k} |-> IF x = k THEN v ELSE m[x]]
MapDel(m, k) == [x \in DOMAIN m \ {k} |-> m[x]]

\* _ChatState.sessions: None, or the legacy mapping engine -> old_data in
\* file order; an old_data that is no dict, has no "resume" or has an empty
\* one carries resume "" (line 62 and line 64 skip all three alike)
NoLegacy == [none |-> TRUE, items |-> <<>>]
Legacy(items) == [none |-> FALSE, items |-> items]
OldData(e, r) == [engine |-> e, resume |-> r]

\* _ChatState; history is the dict in insertion order, keyed by .resume
ChatState(history, active, sessions) ==
    [history |-> history, active |-> active, sessions |-> sessions]
NewChatState == ChatState(<<>>, EmptyMap, NoLegacy)

\* (the key as `f"{chat_id}:{owner_id or 'chat'}"`: an owner id 0 reads as None)
chat_key_or(chat_id, owner_id) ==
    ToString(chat_id) \o ":" \o (IF owner_id \in {NoOwner, 0} THEN "chat"
                                 ELSE ToString(owner_id))

chat_key(chat_id, owner_id) ==
    ToString(chat_id) \o ":" \o (IF owner_id = NoOwner THEN "chat" ELSE ToString(owner_id))

\* dict lookups on history
Keys_of(h) == {h[i].resume : i \in 1..Len(h)}
HistoryGet(h, r) == h[CHOOSE i \in 1..Len(h) : h[i].resume = r]
HistoryDel(h, rs) == SelectSeq(h, LAMBDA x : x.resume \notin rs)

\* the latest operation; ret is the value it returned
Op(name, chat, engine, r, ret) ==
    [op |-> name, chat |-> chat, engine |-> engine, resume |-> r, ret |-> ret]
NoOp == Op("none", "", "", "", FALSE)

\* _new_state(): the store on a path where no state file exists
InitNewStore ==
    /\ cwd = NoneStr
    /\ chats = EmptyMap
    /\ dirty = FALSE
    /\ clock = MAX_SESSIONS_PER_CHAT
    /\ nops = 0
    /\ last = NoOp

-----------------------------------------------------------------------------
(* The chat session store: what each operation does to one chat *)

\* text[:100] and title[:50], on the texts the model uses
LongMessage == "m101"       \* a first message of 101 characters
LongMessageCut == "m100"    \* its first 100
LongTitle == "t51"          \* a title of 51 characters
LongTitleCut == "t50"       \* its first 50
Cut100(text) == IF text = LongMessage THEN LongMessageCut ELSE text
Cut50(text) == IF text = LongTitle THEN LongTitleCut ELSE text

\* the loop of _migrate_chat_state over chat.sessions.items()
RECURSIVE migrate_items(_, _, _)
migrate_items(chat, items, now) ==
    IF items = <<>> THEN chat
    ELSE LET old_data == Head(items)
             r == old_data.resume
             next == IF r # "" /\ r \notin Keys_of(chat.history)
                     THEN [chat EXCEPT
                             !.history = Append(@, SessionInfo(r, old_data.engine, NoneStr,
                                                               NoneStr, now, now)),
                             !.active = MapSet(@, old_data.engine, r)]
                     ELSE chat
         IN migrate_items(next, Tail(items), now)

migrate_chat_state(chat, now) ==
    IF chat.sessions.none THEN chat
    ELSE [migrate_items(chat, chat.sessions.items, now) EXCEPT !.sessions = NoLegacy]

\* _migrate_if_needed; every chat's migration reads the same time
migrate_if_needed(chs, now) == [k \in DOMAIN chs |-> migrate_chat_state(chs[k], now)]

HasLegacy(chs) == \E k \in DOMAIN chs : ~chs[k].sessions.none

\* the place of history[i] when the list is left in insertion order
SortedBefore_insertion(h, idx, i) == Cardinality({j \in idx : j < i})

\* the place of history[i] in `engine_sessions.sort(key=updated_at)`, a stable
\* sort of the sessions at the places idx: how many of them come before it
SortedBefore(h, idx, i) ==
    Cardinality({j \in idx : \/ h[j].updated_at < h[i].updated_at
                             \/ (h[j].updated_at = h[i].updated_at /\ j < i)})

\* `chat.active.get(engine) != rid`
Evictable(chat, engine, rid) == MapGet(chat.active, engine) # rid

\* `len(engine_sessions) - MAX_SESSIONS_PER_CHAT`
ToRemove_short(n) == n - MAX_SESSIONS_PER_CHAT - 1

ToRemove(n) == n - MAX_SESSIONS_PER_CHAT

prune_sessions_locked(chat, engine) ==
    LET h == chat.history
        idx == {i \in 1..Len(h) : h[i].engine = engine}
        to_remove == ToRemove(Cardinality(idx))
        removed == {h[i].resume : i \in {j \in idx : /\ SortedBefore(h, idx, j) < to_remove
                                                      /\ Evictable(chat, engine, h[j].resume)}}
    IN IF Cardinality(idx) <= MAX_SESSIONS_PER_CHAT THEN chat
       ELSE [chat EXCEPT !.history = HistoryDel(@, removed)]

\* lines 140-154 of set_session_resume: update the session, or create it
\* (an upsert that stores the first_message it is given, whatever is stored)
Upsert_overwrite(h, token, first_message, now) ==
    IF token.value \in Keys_of(h)
    THEN [i \in 1..Len(h) |->
            IF h[i].resume # token.value THEN h[i]
            ELSE [h[i] EXCEPT
                    !.updated_at = now,
                    !.first_message = IF first_message # NoneStr
                                      THEN Cut100(first_message) ELSE NoneStr]]
    ELSE Append(h, SessionInfo(token.value, token.engine, NoneStr,
                               IF first_message # NoneStr THEN Cut100(first_message)
                               ELSE NoneStr,
                               now, now))

Upsert(h, token, first_message, now) ==
    IF token.value \in Keys_of(h)
    THEN [i \in 1..Len(h) |->
            IF h[i].resume # token.value THEN h[i]
            ELSE [h[i] EXCEPT
                    !.updated_at = now,
                    !.first_message = IF first_message # NoneStr /\ @ = NoneStr
                                      THEN Cut100(first_message) ELSE @]]
    ELSE Append(h, SessionInfo(token.value, token.engine, NoneStr,
                               IF first_message # NoneStr THEN Cut100(first_message)
                               ELSE NoneStr,
                               now, now))

\* line 157: the key under which set_session_resume records the session as active
ActiveKey(h, token) == token.engine

\* lines 140-160 of set_session_resume, on the chat
SetResume(chat, token, first_message, now) ==
    LET h == Upsert(chat.history, token, first_message, now)
        set == [chat EXCEPT !.history = h,
                            !.active = MapSet(@, ActiveKey(h, token), token.value)]
    IN prune_sessions_locked(set, token.engine)

\* lines 99-107 of get_session_resume: the token it returns
ResumeOf_session(chs, key, engine) ==
    IF key \notin DOMAIN chs THEN NONE
    ELSE LET resume_id == MapGet(chs[key].active, engine)
         IN IF resume_id \in {NoneStr, ""} THEN NONE
            ELSE IF resume_id \notin Keys_of(chs[key].history) THEN NONE
            ELSE LET session == HistoryGet(chs[key].history, resume_id)
                 IN ResumeToken(session.engine, session.resume)

ResumeOf(chs, key, engine) ==
    IF key \notin DOMAIN chs THEN NONE
    ELSE LET resume_id == MapGet(chs[key].active, engine)
         IN IF resume_id \in {NoneStr, ""} THEN NONE
            ELSE IF resume_id \notin Keys_of(chs[key].history) THEN NONE
            ELSE ResumeToken(engine, HistoryGet(chs[key].history, resume_id).resume)

\* lines 217-218 of get_active_session_id
ActiveId(chs, key, engine) ==
    IF key \notin DOMAIN chs THEN NoneStr ELSE MapGet(chs[key].active, engine)

\* lines 236-237 of switch_session without line 236
Switch_keep(chat, resume_id, now) ==
    [chat EXCEPT
       !.history = [i \in 1..Len(@) |->
                       IF @[i].resume = resume_id THEN [@[i] EXCEPT !.updated_at = now]
                       ELSE @[i]]]

\* lines 236-237 of switch_session, on the chat
Switch(chat, resume_id, now) ==
    LET session == HistoryGet(chat.history, resume_id)
    IN [chat EXCEPT
          !.active = MapSet(@, session.engine, resume_id),
          !.history = [i \in 1..Len(@) |->
                          IF @[i].resume = resume_id THEN [@[i] EXCEPT !.updated_at = now]
                          ELSE @[i]]]

\* lines 185-186 of new_session, on the chat
NewSession_all(chat, engine) == [chat EXCEPT !.active = EmptyMap]

NewSession(chat, engine) == [chat EXCEPT !.active = MapDel(@, engine)]

\* lines 278-283 of delete_session, on the chat
Delete(chat, resume_id) ==
    LET session == HistoryGet(chat.history, resume_id)
    IN [chat EXCEPT
          !.history = HistoryDel(@, {resume_id}),
          !.active = IF MapGet(@, session.engine) = resume_id
                     THEN MapDel(@, session.engine) ELSE @]

\* line 260 of name_session, on the chat
Name(chat, engine, title) ==
    [chat EXCEPT
       !.history = [i \in 1..Len(@) |->
                       IF @[i].resume = MapGet(chat.active, engine)
                       THEN [@[i] EXCEPT !.title = Cut50(title)] ELSE @[i]]]

\* line 115 of sync_startup_cwd: `cleared`
Cleared_unrecorded(previous, norm) == previous # norm

Cleared(previous, norm) == previous # NoneStr /\ previous # norm

\* str(cwd.expanduser().resolve()), on the paths the model uses
normalized(path) == IF path = "/w/." THEN "/w" ELSE path

-----------------------------------------------------------------------------
(* The chat session store: its operations, each under self._lock *)

\* time(), taken as never running backwards
Readings(from) == {t \in {from, from + 1} : t <= MAX_SESSIONS_PER_CHAT + MaxTicks}

\* the reading _migrate_chat_state takes, when a chat still has `sessions`
MigrationReadings == IF HasLegacy(chats) THEN Readings(clock) ELSE {clock}

\* an operation that returns without _save_locked()
Unsaved == dirty' = (dirty \/ HasLegacy(chats))

ProcessCwd == "/w"    \* Path.cwd()

\* None, where an operation returns `SessionInfo | None`
NoSession == SessionInfo("", "", NoneStr, NoneStr, 0, 0)

get_session_resume(chat_id, owner_id, engine) ==
    /\ nops < MaxOps
    /\ \E tm \in MigrationReadings :
        LET key == chat_key(chat_id, owner_id)
            migrated == migrate_if_needed(chats, tm)
        IN /\ chats' = migrated
           /\ clock' = tm
           /\ last' = Op("get_session_resume", key, engine, "", ResumeOf(migrated, key, engine))
    /\ Unsaved
    /\ nops' = nops + 1
    /\ UNCHANGED <<cwd, store_frame>>

sync_startup_cwd(path) ==
    /\ nops < MaxOps
    /\ LET previous == cwd
           cleared == Cleared(previous, normalized(path))
       IN /\ chats' = IF cleared THEN EmptyMap ELSE chats
          /\ cwd' = normalized(path)
          /\ dirty' = IF previous # normalized(path) THEN FALSE ELSE dirty
          /\ last' = Op("sync_startup_cwd", "", "", path, cleared)
    /\ nops' = nops + 1
    /\ UNCHANGED <<clock, store_frame>>

set_session_resume(chat_id, owner_id, token, first_message) ==
    /\ nops < MaxOps
    /\ \E tm \in MigrationReadings : \E now \in Readings(tm) :
        LET key == chat_key(chat_id, owner_id)
            migrated == migrate_if_needed(chats, tm)
            chat == IF key \in DOMAIN migrated THEN migrated[key] ELSE NewChatState
        IN /\ chats' = [k \in DOMAIN migrated \cup {key} |->
                           IF k = key THEN SetResume(chat, token, first_message, now)
                           ELSE migrated[k]]
           /\ clock' = now
           /\ last' = Op("set_session_resume", key, token.engine, token.value, NoneStr)
    /\ cwd' = IF cwd = NoneStr THEN ProcessCwd ELSE cwd
    /\ dirty' = FALSE
    /\ nops' = nops + 1
    /\ UNCHANGED store_frame

clear_sessions(chat_id, owner_id) ==
    /\ nops < MaxOps
    /\ \E tm \in MigrationReadings :
        LET key == chat_key(chat_id, owner_id)
            migrated == migrate_if_needed(chats, tm)
        IN /\ clock' = tm
           /\ last' = Op("clear_sessions", key, "", "", NoneStr)
           /\ IF key \notin DOMAIN migrated
              THEN chats' = migrated /\ Unsaved
              ELSE /\ chats' = [migrated EXCEPT ![key].active = EmptyMap]
                   /\ dirty' = FALSE
    /\ nops' = nops + 1
    /\ UNCHANGED <<cwd, store_frame>>

new_session(chat_id, owner_id, engine) ==
    /\ nops < MaxOps
    /\ \E tm \in MigrationReadings :
        LET key == chat_key(chat_id, owner_id)
            migrated == migrate_if_needed(chats, tm)
        IN /\ clock' = tm
           /\ last' = Op("new_session", key, engine, "", NoneStr)
           /\ IF key \notin DOMAIN migrated
              THEN chats' = migrated /\ Unsaved
              ELSE /\ chats' = [migrated EXCEPT ![key] = NewSession(@, engine)]
                   /\ dirty' = FALSE
    /\ nops' = nops + 1
    /\ UNCHANGED <<cwd, store_frame>>

get_active_session_id(chat_id, owner_id, engine) ==
    /\ nops < MaxOps
    /\ \E tm \in MigrationReadings :
        LET key == chat_key(chat_id, owner_id)
            migrated == migrate_if_needed(chats, tm)
        IN /\ chats' = migrated
           /\ clock' = tm
           /\ last' = Op("get_active_session_id", key, engine, "", ActiveId(migrated, key, engine))
    /\ Unsaved
    /\ nops' = nops + 1
    /\ UNCHANGED <<cwd, store_frame>>

switch_session(chat_id, owner_id, resume_id) ==
    /\ nops < MaxOps
    /\ \E tm \in MigrationReadings :
        LET key == chat_key(chat_id, owner_id)
            migrated == migrate_if_needed(chats, tm)
            found == key \in DOMAIN migrated /\ resume_id \in Keys_of(migrated[key].history)
        IN IF ~found
           THEN /\ chats' = migrated
                /\ clock' = tm
                /\ Unsaved
                /\ last' = Op("switch_session", key, "", resume_id, NoSession)
           ELSE \E now \in Readings(tm) :
                LET chat == Switch(migrated[key], resume_id, now)
                IN /\ chats' = [migrated EXCEPT ![key] = chat]
                   /\ clock' = now
                   /\ dirty' = FALSE
                   /\ last' = Op("switch_session", key, "", resume_id,
                                 HistoryGet(chat.history, resume_id))
    /\ nops' = nops + 1
    /\ UNCHANGED <<cwd, store_frame>>

name_session(chat_id, owner_id, engine, title) ==
    /\ nops < MaxOps
    /\ \E tm \in MigrationReadings :
        LET key == chat_key(chat_id, owner_id)
            migrated == migrate_if_needed(chats, tm)
            resume_id == ActiveId(migrated, key, engine)
            found == /\ key \in DOMAIN migrated
                     /\ resume_id \notin {NoneStr, ""}
                     /\ resume_id \in Keys_of(migrated[key].history)
        IN /\ clock' = tm
           /\ last' = Op("name_session", key, engine, "", found)
           /\ IF ~found
              THEN chats' = migrated /\ Unsaved
              ELSE /\ chats' = [migrated EXCEPT ![key] = Name(@, engine, title)]
                   /\ dirty' = FALSE
    /\ nops' = nops + 1
    /\ UNCHANGED <<cwd, store_frame>>

delete_session(chat_id, owner_id, resume_id) ==
    /\ nops < MaxOps
    /\ \E tm \in MigrationReadings :
        LET key == chat_key(chat_id, owner_id)
            migrated == migrate_if_needed(chats, tm)
            found == key \in DOMAIN migrated /\ resume_id \in Keys_of(migrated[key].history)
        IN /\ clock' = tm
           /\ last' = Op("delete_session", key, "", resume_id, found)
           /\ IF ~found
              THEN chats' = migrated /\ Unsaved
              ELSE /\ chats' = [migrated EXCEPT ![key] = Delete(@, resume_id)]
                   /\ dirty' = FALSE
    /\ nops' = nops + 1
    /\ UNCHANGED <<cwd, store_frame>>

-----------------------------------------------------------------------------
(* The chat session store under concurrent tasks: every operation runs its   *)
(* body inside `async with self._lock`.  The body of set_session_resume is   *)
(* followed statement by statement, so that what the lock excludes is what   *)
(* keeps another operation from reading the store between two statements.    *)

Tasks == {1, 2}
NoTask == 0

StoreOps == {"set_session_resume", "get_session_resume"}

\* what an operation saw of its chat: the sessions of the engine with the most
\* sessions, and whether the chat held a history entry that a
\* set_session_resume still in progress had added but not yet activated
Seen(valid, sessions, torn) == [valid |-> valid, sessions |-> sessions, torn |-> torn]
NotSeen == Seen(FALSE, 0, FALSE)

TaskAt(at, op, token, seen) == [at |-> at, op |-> op, token |-> token, seen |-> seen]
IdleTask == TaskAt("idle", "", NONE, NotSeen)

InitNoTasks ==
    /\ task = [t \in Tasks |-> IdleTask]
    /\ store_lock = NoTask

\* the operations whose body is inside `async with self._lock`
takes_lock_writers(op) == op = "set_session_resume"
takes_lock(op) == op \in StoreOps

\* a task calls an operation of the store and arrives at `async with self._lock`
call_store(t, op, token) ==
    /\ task[t].at = "idle"
    /\ nops < MaxOps
    /\ task' = [task EXCEPT ![t] = TaskAt("lock", op, token, NotSeen)]
    /\ nops' = nops + 1
    /\ UNCHANGED <<cwd, chats, dirty, clock, last, store_lock, task_frame>>

\* anyio.Lock.acquire() returns to the task once no other task owns the lock
lock_acquire(t) ==
    /\ task[t].at = "lock"
    /\ takes_lock(task[t].op) => store_lock = NoTask
    /\ store_lock' = IF takes_lock(task[t].op) THEN t ELSE store_lock
    /\ task' = [task EXCEPT ![t].at = "locked"]
    /\ UNCHANGED <<store_vars, task_frame>>

\* leaving the `async with` block releases the lock the task took
lock_release(t) == IF store_lock = t THEN NoTask ELSE store_lock

TaskChat(t) == chat_key(1, NoOwner)
ChatOf(chs, key) == IF key \in DOMAIN chs THEN chs[key] ELSE NewChatState

\* set_session_resume, up to the history entry updated or created
set_upsert(t) ==
    /\ task[t].at = "locked" /\ task[t].op = "set_session_resume"
    /\ \E tm \in MigrationReadings : \E now \in Readings(tm) :
        LET key == TaskChat(t)
            migrated == migrate_if_needed(chats, tm)
            chat == ChatOf(migrated, key)
        IN /\ chats' = [k \in DOMAIN migrated \cup {key} |->
                           IF k = key
                           THEN [chat EXCEPT !.history = Upsert(@, task[t].token, NoneStr, now)]
                           ELSE migrated[k]]
           /\ clock' = now
    /\ cwd' = IF cwd = NoneStr THEN ProcessCwd ELSE cwd
    /\ dirty' = TRUE
    /\ task' = [task EXCEPT ![t].at = "upserted"]
    /\ UNCHANGED <<nops, last, store_lock, task_frame>>

\* set_session_resume: chat.active[token.engine] = token.value
set_activate(t) ==
    /\ task[t].at = "upserted"
    /\ LET key == TaskChat(t)
           token == task[t].token
       IN chats' = [chats EXCEPT ![key].active =
                       MapSet(@, ActiveKey(chats[key].history, token), token.value)]
    /\ task' = [task EXCEPT ![t].at = "activated"]
    /\ UNCHANGED <<cwd, dirty, clock, nops, last, store_lock, task_frame>>

\* set_session_resume: _prune_sessions_locked, _save_locked, and the end of the block
set_prune_save(t) ==
    /\ task[t].at = "activated"
    /\ LET key == TaskChat(t)
       IN /\ chats' = [chats EXCEPT ![key] = prune_sessions_locked(@, task[t].token.engine)]
          /\ last' = Op("set_session_resume", key, task[t].token.engine,
                        task[t].token.value, NoneStr)
    /\ dirty' = FALSE
    /\ store_lock' = lock_release(t)
    /\ task' = [task EXCEPT ![t].at = "idle"]
    /\ UNCHANGED <<cwd, clock, nops, task_frame>>

\* a set_session_resume of task u has added its entry and not yet activated it
Torn(chs, u) ==
    /\ task[u].at = "upserted"
    /\ MapGet(ChatOf(chs, TaskChat(u)).active, task[u].token.engine) # task[u].token.value

MostSessions(chat) ==
    LET n(e) == Cardinality({i \in 1..Len(chat.history) : chat.history[i].engine = e})
    IN IF n(Engine) >= n(OtherEngine) THEN n(Engine) ELSE n(OtherEngine)

\* get_session_resume: the whole body; it reads the chat of the caller
get_body(t) ==
    /\ task[t].at = "locked" /\ task[t].op = "get_session_resume"
    /\ \E tm \in MigrationReadings :
        LET key == TaskChat(t)
            migrated == migrate_if_needed(chats, tm)
        IN /\ chats' = migrated
           /\ clock' = tm
           /\ last' = Op("get_session_resume", key, task[t].token.engine, "",
                         ResumeOf(migrated, key, task[t].token.engine))
           /\ task' = [task EXCEPT
                         ![t].at = "idle",
                         ![t].seen = Seen(TRUE, MostSessions(ChatOf(migrated, key)),
                                          \E u \in Tasks \ {t} : Torn(migrated, u))]
    /\ Unsaved
    /\ store_lock' = lock_release(t)
    /\ UNCHANGED <<cwd, nops, task_frame>>

-----------------------------------------------------------------------------
(* Config migrations (config_migrations.py).  The config is the dict read    *)
(* from the TOML file; migrate_config changes it in place.  Of every table   *)
(* the model keeps the keys the migrations read or write; a key may be       *)
(* missing, hold a table, or hold a value that is not a table.               *)

MaxCalls == 2       \* calls of migrate_config on one config

Absent == "<absent>"        \* the key is not in the table
NotStr == "<integer>"       \* a value that is not a string
Padded == " per_project_chat "

Topics(kind, mode, scope) == [kind |-> kind, mode |-> mode, scope |-> scope]
Telegram(kind, bot_token, chat_id, topics) ==
    [kind |-> kind, bot_token |-> bot_token, chat_id |-> chat_id, topics |-> topics]
Transports(kind, telegram) == [kind |-> kind, telegram |-> telegram]
Config(bot_token, chat_id, transport, transports) ==
    [bot_token |-> bot_token, chat_id |-> chat_id, transport |-> transport,
     transports |-> transports]

\* kind: "absent" (no such key), "scalar" (a value that is not a table), "table"
TopicsOf(kind) == Topics(kind, Absent, Absent)
TelegramOf(kind) == Telegram(kind, Absent, Absent, TopicsOf("absent"))
TransportsOf(kind) == Transports(kind, TelegramOf("absent"))

\* what a migration did: the config as it left it, whether it returned True,
\* whether it raised ConfigError
Outcome(c, applied, raised) == [config |-> c, applied |-> applied, raised |-> raised]

\* str.strip() on the mode values of the model
strip(s) == IF s = Padded THEN "per_project_chat" ELSE s

mapping(cleaned) ==
    IF cleaned = "multi_project_chat" THEN "main"
    ELSE IF cleaned = "per_project_chat" THEN "projects"
    ELSE Absent

migrate_legacy_telegram_keep(c) == Outcome(c, c.bot_token # Absent \/ c.chat_id # Absent, FALSE)
migrate_legacy_telegram(c) ==
    LET has_legacy == c.bot_token # Absent \/ c.chat_id # Absent
        transports == IF c.transports.kind = "absent" THEN TransportsOf("table")
                      ELSE c.transports
        telegram == IF transports.telegram.kind = "absent" THEN TelegramOf("table")
                    ELSE transports.telegram
        moved == [telegram EXCEPT
                    !.bot_token = IF c.bot_token # Absent /\ @ = Absent
                                  THEN c.bot_token ELSE @,
                    !.chat_id = IF c.chat_id # Absent /\ @ = Absent
                                THEN c.chat_id ELSE @]
    IN IF ~has_legacy THEN Outcome(c, FALSE, FALSE)
       ELSE IF c.transports.kind = "scalar" THEN Outcome(c, FALSE, TRUE)
       ELSE IF transports.telegram.kind = "scalar" THEN Outcome(c, FALSE, TRUE)
       ELSE Outcome(Config(Absent, Absent,
                           IF c.transport = Absent THEN "telegram" ELSE c.transport,
                           [transports EXCEPT !.telegram = moved]),
                    TRUE, FALSE)

migrate_topics_scope_always(c) ==
    LET topics == c.transports.telegram.topics
    IN IF c.transports.kind # "table" \/ c.transports.telegram.kind # "table"
          \/ topics.kind # "table" \/ topics.mode = Absent
       THEN Outcome(c, FALSE, c.transports.kind = "scalar"
                              \/ (c.transports.kind = "table"
                                  /\ (c.transports.telegram.kind = "scalar"
                                      \/ (c.transports.telegram.kind = "table"
                                          /\ topics.kind = "scalar"))))
       ELSE IF topics.mode = NotStr \/ mapping(strip(topics.mode)) = Absent
       THEN Outcome(c, FALSE, TRUE)
       ELSE Outcome([c EXCEPT !.transports.telegram.topics =
                        Topics("table", Absent, mapping(strip(topics.mode)))],
                    TRUE, FALSE)
migrate_topics_scope(c) ==
    LET transports == c.transports
        telegram == transports.telegram
        topics == telegram.topics
    IN IF transports.kind = "absent" THEN Outcome(c, FALSE, FALSE)
       ELSE IF transports.kind # "table" THEN Outcome(c, FALSE, TRUE)
       ELSE IF telegram.kind = "absent" THEN Outcome(c, FALSE, FALSE)
       ELSE IF telegram.kind # "table" THEN Outcome(c, FALSE, TRUE)
       ELSE IF topics.kind = "absent" THEN Outcome(c, FALSE, FALSE)
       ELSE IF topics.kind # "table" THEN Outcome(c, FALSE, TRUE)
       ELSE IF topics.mode = Absent THEN Outcome(c, FALSE, FALSE)
       ELSE IF topics.scope # Absent
       THEN Outcome([c EXCEPT !.transports.telegram.topics.mode = Absent], TRUE, FALSE)
       ELSE IF topics.mode = NotStr THEN Outcome(c, FALSE, TRUE)
       ELSE IF mapping(strip(topics.mode)) = Absent THEN Outcome(c, FALSE, TRUE)
       ELSE Outcome([c EXCEPT !.transports.telegram.topics =
                        Topics("table", Absent, mapping(strip(topics.mode)))],
                    TRUE, FALSE)

\* migrate_config: the list of the migrations applied, or ConfigError
Result(c, applied, raised) == [config |-> c, applied |-> applied, raised |-> raised]
migrate_config_of(c) ==
    LET legacy == migrate_legacy_telegram(c)
        scope == migrate_topics_scope(legacy.config)
    IN IF legacy.raised THEN Result(legacy.config, <<>>, TRUE)
       ELSE Result(scope.config,
                   (IF legacy.applied THEN <<"legacy-telegram">> ELSE <<>>) \o
                   (IF scope.applied THEN <<"topics-scope">> ELSE <<>>),
                   scope.raised)

\* the calls so far: the config the first call was given, what the first call
\* returned, what the latest call returned, whether a call raised
Migration(calls, input, first, applied, raised) ==
    [calls |-> calls, input |-> input, first |-> first, applied |-> applied,
     raised |-> raised]

InitNoConfig ==
    /\ config = Config(Absent, Absent, Absent, TransportsOf("absent"))
    /\ migration = Migration(0, config, <<>>, <<>>, FALSE)

\* migrate_config(config); after ConfigError startup is aborted
migrate_config ==
    /\ migration.calls < MaxCalls
    /\ ~migration.raised
    /\ LET r == migrate_config_of(config)
       IN /\ config' = r.config
          /\ migration' = Migration(migration.calls + 1, migration.input,
                                    IF migration.calls = 0 THEN r.applied
                                    ELSE migration.first,
                                    r.applied, r.raised)
    /\ UNCHANGED config_frame

-----------------------------------------------------------------------------
(* The inject directory watcher (telegram/inject.py): one action per stretch *)
(* of watch_inject_dir between two awaits, the handling of each file of a    *)
(* poll being a stretch of its own.  Other processes drop files into the     *)
(* directory at any time.                                                    *)

SYSTEM_PREFIX == "[SYSTEM] "

\* the file names, in the order sorted() gives them
FileNames == <<"a.json", "b.json", "c.json">>
Files == {FileNames[i] : i \in 1..Len(FileNames)}

\* what a file holds.  kind: "object" (a JSON object with the keys text and
\* new_session), "array" (JSON, but no object), "garbage" (no JSON),
\* "unreadable" (read_text raises OSError), "binary" (bytes that are not UTF-8:
\* read_text raises UnicodeDecodeError), "gone" (no such file)
Content(kind, text, ns) == [kind |-> kind, text |-> text, new_session |-> ns]
Gone == Content("gone", "", FALSE)
Texts == {" go ", "  "}
Contents ==
    {Content("object", text, ns) : text \in Texts, ns \in BOOLEAN} \cup
    {Content(k, "", FALSE) : k \in {"array", "garbage", "unreadable", "binary"}}

\* str.strip() on the texts of the model
trim(text) == IF text = " go " THEN "go" ELSE IF text = "  " THEN "" ELSE text

\* json: the content of each *.json file; bad: the files renamed to *.bad;
\* used: the names a file has been written under so far
Directory(json, bad) ==
    [json |-> json, bad |-> bad, used |-> {f \in DOMAIN json : json[f].kind # "gone"}]

Watcher(at, files, fpath, payload, text, token) ==
    [at |-> at, files |-> files, fpath |-> fpath, payload |-> payload, text |-> text,
     token |-> token]

LogEntry(fn, fpath, prompt, token) ==
    [fn |-> fn, fpath |-> fpath, prompt |-> prompt, token |-> token]

ResumeValues == {NoneStr, "r1"}

InitNoInject ==
    /\ inject_dir = Directory([f \in Files |-> Gone], {})
    /\ watcher = Watcher("poll", <<>>, "", Gone, "", NoneStr)
    /\ inject_log = <<>>
    /\ dispatched = {}

\* sorted(inject_dir.glob("*.json"))
sorted_glob_reversed(json) ==
    LET present == {i \in 1..Len(FileNames) : json[FileNames[i]].kind # "gone"}
        rank(i) == Cardinality({j \in present : j >= i})
    IN [n \in 1..Cardinality(present) |->
           FileNames[CHOOSE i \in present : rank(i) = n]]
sorted_glob(json) ==
    LET present == {i \in 1..Len(FileNames) : json[FileNames[i]].kind # "gone"}
        rank(i) == Cardinality({j \in present : j <= i})
    IN [n \in 1..Cardinality(present) |->
           FileNames[CHOOSE i \in present : rank(i) = n]]

\* the top of `while True`: the directory is listed
poll_list ==
    /\ watcher.at = "poll"
    /\ watcher' = [watcher EXCEPT !.at = "file", !.files = sorted_glob(inject_dir.json)]
    /\ inject_log' = <<>>
    /\ UNCHANGED <<inject_dir, dispatched, inject_frame>>

\* (an unlink that leaves the file where it is until after the dispatch)
unlink_late(dir, f, unlinked) == dir

\* lines 63-66: fpath.unlink(), an OSError swallowed
unlink(dir, f, unlinked) == IF unlinked THEN [dir EXCEPT !.json[f] = Gone] ELSE dir

InHand == Head(watcher.files)
HoldsNow == inject_dir.json[InHand]

\* the exceptions of read_text / json.loads that the inner `except` catches
caught(kind) == kind \in {"garbage", "unreadable", "gone"}

\* the file cannot be read or parsed and the inner `except` catches it: warning,
\* rename to *.bad (an OSError from rename is swallowed), next file
read_fails(renamed) ==
    /\ watcher.at = "file" /\ watcher.files # <<>>
    /\ HoldsNow.kind \notin {"object", "array"} /\ caught(HoldsNow.kind)
    /\ renamed => HoldsNow.kind # "gone"
    /\ inject_dir' = IF renamed
                     THEN [inject_dir EXCEPT !.json[InHand] = Gone,
                                             !.bad = @ \cup {InHand}]
                     ELSE inject_dir
    /\ watcher' = [watcher EXCEPT !.files = Tail(@)]
    /\ inject_log' = inject_log \o
           <<LogEntry("warning", InHand, "", NoneStr),
             LogEntry(IF renamed THEN "rename" ELSE "rename failed", InHand, "", NoneStr)>>
    /\ UNCHANGED <<dispatched, inject_frame>>

\* read_text raises what the inner `except` does not catch: the outer `except`
\* logs it and the watcher goes to sleep
read_raises ==
    /\ watcher.at = "file" /\ watcher.files # <<>>
    /\ HoldsNow.kind \notin {"object", "array"} /\ ~caught(HoldsNow.kind)
    /\ watcher' = [watcher EXCEPT !.at = "sleep", !.files = <<>>]
    /\ inject_log' = Append(inject_log, LogEntry("error", InHand, "", NoneStr))
    /\ UNCHANGED <<inject_dir, dispatched, inject_frame>>

\* the file holds JSON: unlink (an OSError from unlink is swallowed), then the
\* text is taken from the payload; up to the first await
take_file(unlinked) ==
    /\ watcher.at = "file" /\ watcher.files # <<>>
    /\ HoldsNow.kind \in {"object", "array"}
    /\ inject_dir' = unlink(inject_dir, InHand, unlinked)
    /\ LET text == trim(HoldsNow.text)
           deleted == LogEntry(IF unlinked THEN "unlink" ELSE "unlink failed",
                               InHand, "", NoneStr)
       IN IF HoldsNow.kind = "array"
          THEN /\ watcher' = [watcher EXCEPT !.at = "sleep", !.files = <<>>]
               /\ inject_log' = inject_log \o <<deleted, LogEntry("error", InHand, "", NoneStr)>>
          ELSE IF text = ""
          THEN /\ watcher' = [watcher EXCEPT !.files = Tail(@)]
               /\ inject_log' = inject_log \o <<deleted, LogEntry("warning", InHand, "", NoneStr)>>
          ELSE /\ watcher' = Watcher(IF HoldsNow.new_session THEN "clear_session"
                                     ELSE "get_resume",
                                     Tail(watcher.files), InHand, HoldsNow, text, NoneStr)
               /\ inject_log' = inject_log \o
                      <<deleted,
                        LogEntry(IF HoldsNow.new_session THEN "clear_session" ELSE "get_resume",
                                 InHand, "", NoneStr)>>
    /\ UNCHANGED <<dispatched, inject_frame>>

\* `await clear_session(chat_id)` returns or raises
clear_session_ends(raised) ==
    /\ watcher.at = "clear_session"
    /\ IF raised
       THEN /\ watcher' = [watcher EXCEPT !.at = "sleep", !.files = <<>>]
            /\ inject_log' = Append(inject_log, LogEntry("error", watcher.fpath, "", NoneStr))
       ELSE /\ watcher' = [watcher EXCEPT !.at = "get_resume"]
            /\ inject_log' = Append(inject_log, LogEntry("get_resume", watcher.fpath, "", NoneStr))
    /\ UNCHANGED <<inject_dir, dispatched, inject_frame>>

\* `await get_resume(chat_id)` returns a token or None, or raises
get_resume_ends(resume_token, raised) ==
    /\ watcher.at = "get_resume"
    /\ IF raised
       THEN /\ watcher' = [watcher EXCEPT !.at = "sleep", !.files = <<>>]
            /\ inject_log' = Append(inject_log, LogEntry("error", watcher.fpath, "", NoneStr))
            /\ UNCHANGED dispatched
       ELSE /\ watcher' = [watcher EXCEPT !.at = "run_job", !.token = resume_token]
            /\ inject_log' = Append(inject_log,
                                    LogEntry("run_job", watcher.fpath,
                                             SYSTEM_PREFIX \o watcher.text, resume_token))
            /\ dispatched' = dispatched \cup {watcher.fpath}
    /\ UNCHANGED <<inject_dir, inject_frame>>

\* `await run_job(...)` returns or raises
run_job_ends(raised) ==
    /\ watcher.at = "run_job"
    /\ watcher' = IF raised THEN [watcher EXCEPT !.at = "sleep", !.files = <<>>]
                  ELSE [watcher EXCEPT !.at = "file"]
    /\ inject_log' = Append(inject_log,
                            LogEntry(IF raised THEN "error" ELSE "returned",
                                     watcher.fpath, "", NoneStr))
    /\ UNCHANGED <<inject_dir, dispatched, inject_frame>>

\* the `for` loop is through the files it listed
poll_done ==
    /\ watcher.at = "file" /\ watcher.files = <<>>
    /\ watcher' = [watcher EXCEPT !.at = "sleep"]
    /\ UNCHANGED <<inject_dir, inject_log, dispatched, inject_frame>>

\* `await anyio.sleep(poll_interval)` returns
sleep_ends ==
    /\ watcher.at = "sleep"
    /\ watcher' = [watcher EXCEPT !.at = "poll"]
    /\ UNCHANGED <<inject_dir, inject_log, dispatched, inject_frame>>

\* the watcher's task is cancelled: the await it is in raises a cancellation,
\* which `except Exception` does not catch
cancel_watcher ==
    /\ watcher.at \in {"clear_session", "get_resume", "run_job", "sleep"}
    /\ watcher' = [watcher EXCEPT !.at = "cancelled", !.files = <<>>]
    /\ UNCHANGED <<inject_dir, inject_log, dispatched, inject_frame>>

\* another process writes a file under a name not used before
drop_file(f, content) ==
    /\ watcher.at # "cancelled"
    /\ f \notin inject_dir.used
    /\ inject_dir' = [inject_dir EXCEPT !.json[f] = content, !.used = @ \cup {f}]
    /\ UNCHANGED <<watcher, inject_log, dispatched, inject_frame>>

-----------------------------------------------------------------------------
(* The progress renderer (ExecProgressRenderer, spec 4.6), the fold of       *)
(* note_event over the events.  A line of recent_actions is kept with the    *)
(* id of its action, whether the action has completed, and the number the    *)
(* action had when its line was appended.                                    *)

max_actions == 2    \* ExecProgressRenderer(max_actions=...)
MaxEvents == 5      \* calls of note_event on one renderer

ActionIds == {"a-1", "dup", "item_0"}
Commands == {"echo one", "echo two"}
NotSeenId == 0

\* the events note_event is given
RenderEvent(type, id, title, token) ==
    [type |-> type, id |-> id, title |-> title, resume |-> token]
NoEvent == RenderEvent("", "", "", NONE)
RenderEvents ==
    {RenderEvent("session.started", "", "Codex", S1)} \cup
    {RenderEvent(t, id, c, NONE) :
        t \in {"action.started", "action.completed"}, id \in ActionIds, c \in Commands} \cup
    {RenderEvent("completed", "", "", NONE), RenderEvent("mystery", "", "", NONE)}

\* line rendering of a command; "> " stands for the mark of a started command,
\* "ok " for the check mark of a command completed ok
render_line(event) ==
    (IF event.type = "action.started" THEN "> " ELSE "ok ") \o event.title

Slot(line, id, done, step) == [line |-> line, id |-> id, done |-> done, step |-> step]

Renderer(action_count, recent, seen, last_resume, last_title) ==
    [action_count |-> action_count, recent |-> recent, seen_action_ids |-> seen,
     last_resume |-> last_resume, last_title |-> last_title]

recent_actions == [i \in 1..Len(renderer.recent) |-> renderer.recent[i].line]

InitRenderer ==
    /\ renderer = Renderer(0, <<>>, [id \in ActionIds |-> NotSeenId], NONE, NoneStr)
    /\ noted = [n |-> 0, event |-> NoEvent, changed |-> FALSE]

\* the deque drops its first line: the ids move up, the id of the dropped
\* line is forgotten
forget_evicted_stale(seen) == seen
forget_evicted(seen) ==
    [id \in DOMAIN seen |-> IF seen[id] <= 1 THEN NotSeenId ELSE seen[id] - 1]

\* a new line at the end of recent_actions (a deque with maxlen = max_actions)
append_action(r, event) ==
    LET full == Len(r.recent) >= max_actions
        kept == IF full THEN Tail(r.recent) ELSE r.recent
        seen == IF full THEN forget_evicted(r.seen_action_ids) ELSE r.seen_action_ids
        slot == Slot(render_line(event), event.id, event.type = "action.completed",
                     r.action_count + 1)
    IN [r EXCEPT !.action_count = @ + 1,
                 !.recent = Append(kept, slot),
                 !.seen_action_ids = [seen EXCEPT ![event.id] = Len(kept) + 1]]

\* the line of the action is replaced where it is
replace_action_moved(r, event) ==
    LET i == r.seen_action_ids[event.id]
        rest == SelectSeq(r.recent, LAMBDA s : s # r.recent[i])
        slot == Slot(render_line(event), event.id, event.type = "action.completed",
                     r.recent[i].step)
    IN [r EXCEPT !.recent = Append(rest, slot)]
replace_action(r, event) ==
    LET i == r.seen_action_ids[event.id]
    IN [r EXCEPT !.recent[i] = Slot(render_line(event), event.id,
                                    event.type = "action.completed", @.step)]

resident(r, id) == r.seen_action_ids[id] # NotSeenId

\* the id has a line in recent_actions whose action has not completed
has_open_any(r, id) == resident(r, id)
has_open(r, id) == resident(r, id) /\ ~r.recent[r.seen_action_ids[id]].done

\* SessionStarted
session_started_counted(r, event) ==
    [r EXCEPT !.last_resume = event.resume, !.last_title = event.title,
              !.action_count = @ + 1]
session_started(r, event) ==
    [r EXCEPT !.last_resume = event.resume, !.last_title = event.title]

\* note_event: the renderer after the event, and the bool returned
Noted(r, changed) == [renderer |-> r, changed |-> changed]
note_event_of(r, event) ==
    IF event.type = "session.started" THEN Noted(session_started(r, event), TRUE)
    ELSE IF event.type = "action.started"
    THEN Noted(IF has_open(r, event.id) THEN replace_action(r, event)
               ELSE append_action(r, event), TRUE)
    ELSE IF event.type = "action.completed"
    THEN Noted(IF resident(r, event.id) THEN replace_action(r, event)
               ELSE append_action(r, event), TRUE)
    ELSE Noted(r, FALSE)

\* one call of note_event
note(event) ==
    /\ noted.n < MaxEvents
    /\ LET after == note_event_of(renderer, event)
       IN /\ renderer' = after.renderer
          /\ noted' = [n |-> noted.n + 1, event |-> event, changed |-> after.changed]
    /\ UNCHANGED render_frame

-----------------------------------------------------------------------------
(* Resume lines (runner.py, ResumeTokenMixin)                              *)
(*                                                                         *)
(* A text is a sequence of lines and a line a sequence of lexemes: words   *)
(* between whitespace, and the backtick.  resume_re is set by each         *)
(* engine's runner and is not part of runner.py; it is taken to match      *)
(* exactly the lines format_resume writes for its own engine, with the     *)
(* group `token` on the word after `resume`.                               *)

MaxTextLines == 3       \* lines of one text

\* session ids: non-empty words
SessionIds == {"s1", "s2"}
MixinTokens == {ResumeToken(e, v) : e \in {Engine, OtherEngine}, v \in SessionIds}

Tick == "tick"      \* the lexeme of one backtick

\* the f-string of line 36: backtick, engine, resume, value, backtick
resume_line(engine, value) == <<Tick, engine, "resume", value, Tick>>

\* lines 33-36: the line, or <<>> for the RuntimeError
format_resume(token) ==
    IF token.engine # Engine THEN <<>> ELSE resume_line(Engine, token.value)

\* match.group("token") of resume_re on one line, "" when it does not match
resume_re(line) ==
    IF /\ Len(line) = 5
       /\ line[1] = Tick /\ line[2] = Engine /\ line[3] = "resume" /\ line[5] = Tick
       /\ line[4] # Tick
    THEN line[4] ELSE ""

\* lines 44-48: `found` after the matches of the lines
RECURSIVE found_in(_, _)
found_in(text, found) ==
    IF text = <<>> THEN found
    ELSE LET token == resume_re(Head(text))
         IN found_in(Tail(text), IF token # "" THEN token ELSE found)

\* (an extract_resume that stops at the first match)
RECURSIVE first_in(_)
first_in(text) ==
    IF text = <<>> THEN ""
    ELSE IF resume_re(Head(text)) # "" THEN resume_re(Head(text))
    ELSE first_in(Tail(text))

extract_resume_first(text) ==
    IF text = <<>> \/ first_in(text) = "" THEN NONE
    ELSE ResumeToken(Engine, first_in(text))

\* lines 41-51
extract_resume(text) ==
    IF text = <<>> THEN NONE
    ELSE LET found == found_in(text, "")
         IN IF found = "" THEN NONE ELSE ResumeToken(Engine, found)

\* lines of a message that format_resume did not write: prose, the resume
\* line of another engine's runner, a resume line cut short
OtherLines ==
    {<<"done">>, resume_line(OtherEngine, "s1"), <<Tick, Engine, "resume", Tick>>}

\* text: the lines; origin: for each line the token format_resume wrote it
\* from, NONE for other lines; refused: format_resume raised for the token
\* `given`; extracted, found: extract_resume has run on text, and its result
Mixin(text, origin, given, refused, extracted, found) ==
    [text |-> text, origin |-> origin, given |-> given, refused |-> refused,
     extracted |-> extracted, found |-> found]
IdleMixin == Mixin(<<>>, <<>>, NONE, FALSE, FALSE, NONE)

call_format_resume(token) ==
    /\ Len(mixin.text) < MaxTextLines
    /\ mixin' = IF format_resume(token) = <<>>
                THEN [mixin EXCEPT !.given = token, !.refused = TRUE, !.extracted = FALSE]
                ELSE Mixin(Append(mixin.text, format_resume(token)),
                           Append(mixin.origin, token), token, FALSE, FALSE, NONE)
    /\ UNCHANGED <<reader, record, reply, aux_frame>>

\* the caller adds a line of its own to the message
write_line(line) ==
    /\ Len(mixin.text) < MaxTextLines
    /\ mixin' = Mixin(Append(mixin.text, line), Append(mixin.origin, NONE),
                      mixin.given, mixin.refused, FALSE, NONE)
    /\ UNCHANGED <<reader, record, reply, aux_frame>>

call_extract_resume ==
    /\ ~mixin.extracted
    /\ mixin' = [mixin EXCEPT !.extracted = TRUE, !.found = extract_resume(mixin.text)]
    /\ UNCHANGED <<reader, record, reply, aux_frame>>

-----------------------------------------------------------------------------
(* The line reader (utils/streams.py, iter_bytes_lines)                    *)
(*                                                                         *)
(* The child's stdout is a sequence of bytes that arrives in chunks of any *)
(* size.  BufferedByteReceiveStream.receive_until(b"\n", sys.maxsize)      *)
(* returns the buffered bytes before the first delimiter and drops the     *)
(* delimiter; without one it receives another chunk, and raises            *)
(* IncompleteRead when the stream has ended.                               *)

MaxBytes == 4       \* bytes of one stream

NL == "\n"
Bytes == {"x", "y", NL}

RECURSIVE ByteSeqs(_)
ByteSeqs(n) ==
    IF n = 0 THEN {<<>>}
    ELSE ByteSeqs(n - 1) \cup {Append(b, c) : b \in {x \in ByteSeqs(n - 1) : Len(x) = n - 1},
                                              c \in Bytes}

\* sent: all the bytes the child writes; rest: those not yet received;
\* buffer: received and not yet returned; lines: yielded so far; chunks: how
\* many chunks the bytes received came in
Reader(at, sent, rest, buffer, lines, chunks) ==
    [at |-> at, sent |-> sent, rest |-> rest, buffer |-> buffer, lines |-> lines,
     chunks |-> chunks]
IdleReader == Reader("idle", <<>>, <<>>, <<>>, <<>>, 0)

\* the place of the first delimiter in the buffer, 0 if there is none
find_delimiter(buffer) ==
    IF \E i \in 1..Len(buffer) : buffer[i] = NL
    THEN CHOOSE i \in 1..Len(buffer) :
            buffer[i] = NL /\ \A j \in 1..(i - 1) : buffer[j] # NL
    ELSE 0

\* (a reader that yields what is left in the buffer when the stream ends)
at_eof_flush(buffer) == IF buffer = <<>> THEN <<>> ELSE <<buffer>>

\* lines 17-18: `except anyio.IncompleteRead: return`, nothing is yielded
at_eof(buffer) == <<>>

\* receive_until finds the delimiter in the buffer; lines 16 and 19, and
\* runner.py lines 237-240: rstrip(b"\n") of a line without delimiter
yield_line ==
    /\ reader.at = "read"
    /\ find_delimiter(reader.buffer) # 0
    /\ LET i == find_delimiter(reader.buffer)
       IN reader' = [reader EXCEPT
                        !.lines = Append(@, SubSeq(reader.buffer, 1, i - 1)),
                        !.buffer = SubSeq(@, i + 1, Len(@))]
    /\ UNCHANGED <<mixin, record, reply, aux_frame>>

\* receive_until has no delimiter in the buffer: the next n bytes arrive
receive_chunk(n) ==
    /\ reader.at = "read"
    /\ find_delimiter(reader.buffer) = 0
    /\ n \in 1..Len(reader.rest)
    /\ reader' = [reader EXCEPT !.buffer = @ \o SubSeq(reader.rest, 1, n),
                                !.rest = SubSeq(@, n + 1, Len(@)),
                                !.chunks = @ + 1]
    /\ UNCHANGED <<mixin, record, reply, aux_frame>>

\* no delimiter in the buffer and the stream has ended
end_of_stream ==
    /\ reader.at = "read"
    /\ find_delimiter(reader.buffer) = 0
    /\ reader.rest = <<>>
    /\ reader' = [reader EXCEPT !.at = "done", !.lines = @ \o at_eof(reader.buffer)]
    /\ UNCHANGED <<mixin, record, reply, aux_frame>>

-----------------------------------------------------------------------------
(* The redaction filter (logging.py, RedactTokenFilter)                    *)
(*                                                                         *)
(* A message is a sequence of pieces: the word bot, a digit, a colon, a    *)
(* letter, a run of ten letters, a hyphen, and the two replacement texts.  *)
(* The two regular expressions are computed on the pieces as re.sub        *)
(* computes them: leftmost match first, each repetition as long as the     *)
(* rest of the pattern allows, matches that do not overlap.                *)

MaxPieces == 4      \* pieces of one message

Bot == "bot"
Digit == "7"
Colon == ":"
Letter == "a"
TenLetters == "abcdefghij"
Hyphen == "-"
Redacted == "[REDACTED]"
RedactedToken == "[REDACTED_TOKEN]"
Pieces == {Bot, Digit, Colon, Letter, TenLetters, Hyphen}

IsDigit(c) == c = Digit
IsTokenChar(c) == c \in {Bot, Digit, Letter, TenLetters, Hyphen}     \* [A-Za-z0-9_-]
IsWordChar(c) == c \in {Bot, Digit, Letter, TenLetters}              \* \w
Size(c) == IF c = Bot THEN 3 ELSE IF c = TenLetters THEN 10 ELSE 1

RECURSIVE SizeOf(_, _, _)
SizeOf(m, from, to) == IF from > to THEN 0 ELSE Size(m[from]) + SizeOf(m, from + 1, to)

\* the end of the longest run of pieces of one class that starts at i
\* (i - 1 when m[i] is not of the class)
RunEnd(m, i, Class(_)) ==
    CHOOSE k \in (i - 1)..Len(m) :
        /\ \A x \in i..k : Class(m[x])
        /\ k = Len(m) \/ ~Class(m[k + 1])

\* \b between m[k] and m[k + 1]
boundary(m, k) ==
    (k >= 1 /\ IsWordChar(m[k])) # (k < Len(m) /\ IsWordChar(m[k + 1]))

\* line 8, TELEGRAM_TOKEN_RE at i: the end of the match, 0 if there is none
match_token(m, i) ==
    IF m[i] # Bot THEN 0
    ELSE LET j == RunEnd(m, i + 1, IsDigit)
         IN IF j < i + 1 \/ j + 1 > Len(m) \/ m[j + 1] # Colon THEN 0
            ELSE LET k == RunEnd(m, j + 2, IsTokenChar)
                 IN IF k < j + 2 THEN 0 ELSE k

TokenMin == 10      \* {10,}

\* line 9, TELEGRAM_BARE_TOKEN_RE at i
match_bare_token(m, i) ==
    IF ~IsDigit(m[i]) \/ ~boundary(m, i - 1) THEN 0
    ELSE LET j == RunEnd(m, i, IsDigit)
         IN IF j + 1 > Len(m) \/ m[j + 1] # Colon THEN 0
            ELSE LET ends == {k \in (j + 2)..RunEnd(m, j + 2, IsTokenChar) :
                                 SizeOf(m, j + 2, k) >= TokenMin /\ boundary(m, k)}
                 IN IF ends = {} THEN 0
                    ELSE CHOOSE k \in ends : \A x \in ends : x <= k

\* line 19: TELEGRAM_TOKEN_RE.sub("bot[REDACTED]", message), from i on
RECURSIVE sub_token(_, _)
sub_token(m, i) ==
    IF i > Len(m) THEN <<>>
    ELSE IF match_token(m, i) # 0
         THEN <<Bot, Redacted>> \o sub_token(m, match_token(m, i) + 1)
         ELSE <<m[i]>> \o sub_token(m, i + 1)

\* line 20: TELEGRAM_BARE_TOKEN_RE.sub("[REDACTED_TOKEN]", redacted), from i on
RECURSIVE sub_bare_token(_, _)
sub_bare_token(m, i) ==
    IF i > Len(m) THEN <<>>
    ELSE IF match_bare_token(m, i) # 0
         THEN <<RedactedToken>> \o sub_bare_token(m, match_bare_token(m, i) + 1)
         ELSE <<m[i]>> \o sub_bare_token(m, i + 1)

redact(message) == sub_bare_token(sub_token(message, 1), 1)

\* what record.getMessage() does: returns the message, or raises
Formattings == {"ok", "TypeError", "ValueError", "KeyError"}

\* line 16: `except (TypeError, ValueError)`
swallowed(error) == error \in {"TypeError", "ValueError"}

\* msg, args: the record's (args stands for what formatting with them does);
\* given, error: msg and args as the record was logged; first: msg after the
\* first call of filter; at: "new", "passed" (filter returned True) or
\* "raised" (filter raised); calls: the calls of filter on the record
Record(msg, args, given, error, first, at, calls) ==
    [msg |-> msg, args |-> args, given |-> given, error |-> error, first |-> first,
     at |-> at, calls |-> calls]
IdleRecord == Record(<<>>, "ok", <<>>, "ok", <<>>, "idle", 0)

FilterCalls == 2    \* the redactor is on the root logger and on its handler

\* lines 13-24
filter_record ==
    /\ record.at \in {"new", "passed"}
    /\ record.calls < FilterCalls
    /\ record' =
          IF record.args # "ok"
          THEN [record EXCEPT !.at = IF swallowed(record.args) THEN "passed" ELSE "raised",
                              !.first = IF record.calls = 0 THEN record.msg ELSE @,
                              !.calls = @ + 1]
          ELSE LET redacted == redact(record.msg)
               IN [record EXCEPT
                     !.msg = redacted,
                     !.args = "ok",
                     !.first = IF record.calls = 0 THEN redacted ELSE @,
                     !.at = "passed",
                     !.calls = @ + 1]
    /\ UNCHANGED <<mixin, reader, reply, aux_frame>>

\* the handler writes the record out
emit_record ==
    /\ record.at = "passed"
    /\ record.calls = FilterCalls
    /\ record' = [record EXCEPT !.at = "emitted"]
    /\ UNCHANGED <<mixin, reader, reply, aux_frame>>

-----------------------------------------------------------------------------
(* The session commands (telegram/commands/sessions.py)                    *)
(*                                                                         *)
(* /switch, /delete and the switch button look a session up by the start   *)
(* of its id and then call the store.  Each handler is one action: it runs *)
(* list_sessions and then switch_session or delete_session with no other   *)
(* store call of the chat in between.                                      *)

\* the characters of the ids and arguments used with the commands
Spell(text) ==
    CASE text = "" -> <<>>
      [] text = "a" -> <<"a">>
      [] text = "ab" -> <<"a", "b">>
      [] text = "abc" -> <<"a", "b", "c">>
      [] text = "ad" -> <<"a", "d">>
      [] OTHER -> <<text>>

\* str.startswith
startswith(text, prefix) ==
    /\ Len(Spell(prefix)) <= Len(Spell(text))
    /\ SubSeq(Spell(text), 1, Len(Spell(prefix))) = Spell(prefix)

\* args_text.strip()
PaddedArg == " ab "
Blanks == "  "
strip_args(args_text) ==
    IF args_text = PaddedArg THEN "ab" ELSE IF args_text = Blanks THEN "" ELSE args_text

\* chat_sessions.py lines 200-206: the sessions by updated_at, latest first
\* (list.sort is stable, also with reverse=True)
list_sessions(chs, key) ==
    IF key \notin DOMAIN chs THEN <<>>
    ELSE LET h == chs[key].history
             before(i) == {j \in 1..Len(h) : \/ h[j].updated_at > h[i].updated_at
                                             \/ /\ h[j].updated_at = h[i].updated_at
                                                /\ j < i}
         IN [k \in 1..Len(h) |->
                h[CHOOSE i \in 1..Len(h) : Cardinality(before(i)) = k - 1]]

\* [s for s in sessions if s.resume.startswith(resume_id)]
matching_of(sessions, resume_id) ==
    SelectSeq(sessions, LAMBDA session : startswith(session.resume, resume_id))

\* handle_switch_callback, lines 264-267: any number of matches is accepted
ambiguous_callback(matching) == FALSE

\* (commands that take the first match whatever else matches)
ambiguous_never(matching) == FALSE

\* lines 161-163 and 233-235: `if len(matching) > 1`
ambiguous(matching) == Len(matching) > 1

\* what a handler replied: the command, its argument, the kind of reply, and
\* the id of the session it switched to or deleted
Reply(command, arg, text, session) ==
    [command |-> command, arg |-> arg, text |-> text, session |-> session]
IdleReply == Reply("none", "", "", NoneStr)

NoKey == <<>>       \* session_key None

\* a handler that returns before it calls the store
replies(command, arg, text) ==
    /\ reply' = Reply(command, arg, text, NoneStr)
    /\ UNCHANGED store_vars

\* a handler that returns after list_sessions alone
looked_up(command, arg, text) ==
    /\ reply' = Reply(command, arg, text, NoneStr)
    /\ chats' = migrate_if_needed(chats, clock)
    /\ Unsaved
    /\ last' = Op("list_sessions", last.chat, "", "", FALSE)
    /\ UNCHANGED <<cwd, clock, nops>>

\* store.switch_session(chat_id, owner_id, resume) for a session just listed
switched_to(command, arg, key, resume_id) ==
    \E now \in Readings(clock) :
        /\ chats' = [migrate_if_needed(chats, clock) EXCEPT
                        ![key] = Switch(@, resume_id, now)]
        /\ clock' = now
        /\ dirty' = FALSE
        /\ last' = Op("switch_session", key, "", resume_id, TRUE)
        /\ reply' = Reply(command, arg, "switched to", resume_id)
        /\ UNCHANGED <<cwd, nops>>

\* lines 132-171
handle_switch_command(session_key, args_text) ==
    /\ UNCHANGED command_frame
    /\ IF session_key = NoKey
       THEN replies("switch", args_text, "session tracking not available.")
       ELSE LET key == chat_key(session_key[1], session_key[2])
                resume_id == strip_args(args_text)
                sessions == list_sessions(migrate_if_needed(chats, clock), key)
                matching == matching_of(sessions, resume_id)
            IN IF resume_id = "" THEN replies("switch", args_text, "usage")
               ELSE IF matching = <<>>
                    THEN looked_up("switch", args_text, "no session found matching")
               ELSE IF ambiguous(matching)
                    THEN looked_up("switch", args_text, "multiple sessions match")
               ELSE switched_to("switch", args_text, key, matching[1].resume)

\* lines 204-245
handle_delete_command(session_key, args_text) ==
    /\ UNCHANGED command_frame
    /\ IF session_key = NoKey
       THEN replies("delete", args_text, "session tracking not available.")
       ELSE LET key == chat_key(session_key[1], session_key[2])
                resume_id == strip_args(args_text)
                sessions == list_sessions(migrate_if_needed(chats, clock), key)
                matching == matching_of(sessions, resume_id)
            IN IF resume_id = "" THEN replies("delete", args_text, "usage")
               ELSE IF matching = <<>>
                    THEN looked_up("delete", args_text, "no session found matching")
               ELSE IF ambiguous(matching)
                    THEN looked_up("delete", args_text, "multiple sessions match")
               ELSE /\ chats' = [migrate_if_needed(chats, clock) EXCEPT
                                    ![key] = Delete(@, matching[1].resume)]
                    /\ dirty' = FALSE
                    /\ last' = Op("delete_session", key, "", matching[1].resume, TRUE)
                    /\ reply' = Reply("delete", args_text, "deleted session",
                                      matching[1].resume)
                    /\ UNCHANGED <<cwd, clock, nops>>

\* lines 248-272
handle_switch_callback(session_key, resume_id_prefix) ==
    /\ UNCHANGED command_frame
    /\ IF session_key = NoKey
       THEN replies("callback", resume_id_prefix, "session tracking not available.")
       ELSE LET key == chat_key(session_key[1], session_key[2])
                sessions == list_sessions(migrate_if_needed(chats, clock), key)
                matching == matching_of(sessions, resume_id_prefix)
            IN IF matching = <<>>
               THEN looked_up("callback", resume_id_prefix, "session not found")
               ELSE IF ambiguous_callback(matching)
                    THEN looked_up("callback", resume_id_prefix, "multiple sessions match")
               ELSE switched_to("callback", resume_id_prefix, key, matching[1].resume)

-----------------------------------------------------------------------------
(* Specifications *)

\* a runner, and a store constructed on a path where no state file exists
\* no text, no stream, no log record and no command yet
InitNoAux == mixin = IdleMixin /\ reader = IdleReader /\ record = IdleRecord /\ reply = IdleReply

Init ==
    /\ InitRunner /\ InitNewStore /\ InitNoTasks /\ InitNoConfig /\ InitNoInject /\ InitRenderer
    /\ InitNoAux

\* the steps of invocation i that wait for nobody
Step(i, lines, max, codes) ==
    \/ \E r \in Resumes : Call(i, r)
    \/ \E pipes \in BOOLEAN : Spawn(i, pipes)
    \/ \E line \in lines : ReadLine(i, line, max)
    \/ Emit(i)
    \/ StdoutEof(i)
    \/ \E code \in codes : ProcExit(i, code)
    \/ EmitFinal(i)
    \/ Return(i)
    \/ Cancel(i)

\* one invocation, a child that may write anything
NextRun == Step(1, RunLines, MaxLines, ExitCodes)
RunSpec == Init /\ [][NextRun]_vars

\* concurrent invocations on one runner
NextLock ==
    \E i \in Invocations :
        \/ Step(i, LockLines, MaxLockLines, LockExitCodes)
        \/ EnterLock(i)
        \/ AcquireFresh(i)
LockSpec == Init /\ [][NextLock]_vars

\* concurrent invocations on two sessions, for the study of waiting: run()
\* with no resume or with the token of either session, children that
\* announce either session and exit with code 0
FairResumes == {NONE, S1, S2}
FairLines == {Json(<<StartedEvent(Engine, S1)>>), Json(<<StartedEvent(Engine, S2)>>)}
FairExitCodes == {0}

\* what an invocation does by itself once run() was called: its child writes,
\* closes stdout and exits, its consumer asks for the next event, the event
\* loop resumes a task whose acquire() was served
Progress(i) ==
    \/ \E pipes \in BOOLEAN : Spawn(i, pipes)
    \/ \E line \in FairLines : ReadLine(i, line, MaxLockLines)
    \/ Emit(i)
    \/ StdoutEof(i)
    \/ \E code \in FairExitCodes : ProcExit(i, code)
    \/ EmitFinal(i)
    \/ Return(i)
    \/ EnterLock(i)
    \/ AcquireFresh(i)

NextLockFair ==
    \E i \in Invocations :
        \/ \E r \in FairResumes : Call(i, r)
        \/ Progress(i)
        \/ Cancel(i)

\* every child exits in the end and every consumer drains its sequence;
\* whether run() is called, and whether a consumer is cancelled, stays open
LockFairSpec ==
    Init /\ [][NextLockFair]_vars /\ \A i \in Invocations : WF_vars(Progress(i))

\* the callers, engines, tokens, resume ids and texts the store is used with
Callers == {<<1, NoOwner>>, <<1, 7>>}
Engines == {Engine, OtherEngine}
StoreTokens == {ResumeToken(e, v) : e \in Engines, v \in {"n1", "n2", "h1"}}
ResumeIds == {"n1", "n2", "h1", "k1"}
FirstMessages == {NoneStr, LongMessage}
Titles == {"work", LongTitle}
Paths == {"/w", "/w/.", "/x"}

\* state files the store has written before: MAX_SESSIONS_PER_CHAT sessions
\* h1..h20 of one engine, set at the times 1..20, after one session k1 of the
\* other engine; in the second file h1 was switched to at time 20
FullHistory(h1_updated_at) ==
    <<SessionInfo("k1", OtherEngine, NoneStr, NoneStr, 0, 0)>> \o
    [i \in 1..MAX_SESSIONS_PER_CHAT |->
        SessionInfo("h" \o ToString(i), Engine, NoneStr, NoneStr, i,
                    IF i = 1 THEN h1_updated_at ELSE i)]

FullChats ==
    { [k \in {chat_key(1, NoOwner)} |->
          ChatState(FullHistory(1),
                    MapSet(MapSet(EmptyMap, OtherEngine, "k1"), Engine,
                           "h" \o ToString(MAX_SESSIONS_PER_CHAT)),
                    NoLegacy)],
      [k \in {chat_key(1, NoOwner)} |->
          ChatState(FullHistory(MAX_SESSIONS_PER_CHAT),
                    MapSet(MapSet(EmptyMap, OtherEngine, "k1"), Engine, "h1"),
                    NoLegacy)] }

\* state files of the single-session format: each chat has only `sessions`
LegacyItems ==
    { <<OldData(Engine, "n1"), OldData(OtherEngine, "n2")>>,
      <<OldData(Engine, "n1"), OldData(OtherEngine, "n1")>>,
      <<OldData(Engine, ""), OldData(OtherEngine, "n2")>> }

LegacyChats ==
    { [k \in {chat_key(1, NoOwner), chat_key(1, 7)} |->
          ChatState(<<>>, EmptyMap,
                    Legacy(IF k = chat_key(1, 7) THEN <<OldData(OtherEngine, "n1")>>
                           ELSE items))] : items \in LegacyItems }

\* the store after construction: no state file, or one of the files above
\* loaded, at a time not before the times in the file
InitStore ==
    /\ InitRunner
    /\ InitNoTasks
    /\ InitNoConfig
    /\ InitNoInject
    /\ InitRenderer
    /\ InitNoAux
    /\ \/ InitNewStore
       \/ /\ chats \in FullChats
          /\ cwd = ProcessCwd
          /\ dirty = FALSE /\ clock = MAX_SESSIONS_PER_CHAT /\ nops = 0 /\ last = NoOp
       \/ /\ chats \in LegacyChats
          /\ cwd = NoneStr
          /\ dirty = FALSE /\ clock = MAX_SESSIONS_PER_CHAT /\ nops = 0 /\ last = NoOp

NextStore ==
    \/ \E path \in Paths : sync_startup_cwd(path)
    \/ \E c \in Callers :
        \/ \E e \in Engines : get_session_resume(c[1], c[2], e)
        \/ \E token \in StoreTokens, m \in FirstMessages :
              set_session_resume(c[1], c[2], token, m)
        \/ clear_sessions(c[1], c[2])
        \/ \E e \in Engines : new_session(c[1], c[2], e)
        \/ \E e \in Engines : get_active_session_id(c[1], c[2], e)
        \/ \E r \in ResumeIds : switch_session(c[1], c[2], r)
        \/ \E e \in Engines, title \in Titles : name_session(c[1], c[2], e, title)
        \/ \E r \in ResumeIds : delete_session(c[1], c[2], r)

StoreSpec == InitStore /\ [][NextStore]_vars

\* two tasks of one process calling the store
NextTasks ==
    \E t \in Tasks :
        \/ \E op \in StoreOps, token \in StoreTokens : call_store(t, op, token)
        \/ lock_acquire(t)
        \/ set_upsert(t)
        \/ set_activate(t)
        \/ set_prune_save(t)
        \/ get_body(t)
TasksSpec == InitStore /\ [][NextTasks]_vars

\* the config files migrate_config is given: every combination of the keys
\* the migrations look at, missing, a table, or not a table
Modes == {Absent, "multi_project_chat", "per_project_chat", Padded, "single", NotStr}
Scopes == {Absent, "main", "projects"}
TopicsSet ==
    {TopicsOf("absent"), TopicsOf("scalar")} \cup
    {Topics("table", m, s) : m \in Modes, s \in Scopes}
TelegramSet ==
    {TelegramOf("absent"), TelegramOf("scalar")} \cup
    {Telegram("table", b, c, t) : b \in {Absent, "old"}, c \in {Absent, "9"}, t \in TopicsSet}
TransportsSet ==
    {TransportsOf("absent"), TransportsOf("scalar")} \cup
    {Transports("table", t) : t \in TelegramSet}
Configs ==
    {Config(b, c, t, ts) : b \in {Absent, "T"}, c \in {Absent, "42"},
                           t \in {Absent, "telegram", "local"}, ts \in TransportsSet}

InitConfig ==
    /\ InitRunner /\ InitNewStore /\ InitNoTasks /\ InitNoInject /\ InitRenderer
    /\ InitNoAux
    /\ config \in Configs
    /\ migration = Migration(0, config, <<>>, <<>>, FALSE)

NextConfig == migrate_config
ConfigSpec == InitConfig /\ [][NextConfig]_vars

\* the watcher started on a directory that holds any files
InitInject ==
    /\ InitRunner /\ InitNewStore /\ InitNoTasks /\ InitNoConfig /\ InitRenderer
    /\ InitNoAux
    /\ inject_dir \in {Directory(json, {}) : json \in [Files -> Contents \cup {Gone}]}
    /\ watcher = Watcher("poll", <<>>, "", Gone, "", NoneStr)
    /\ inject_log = <<>>
    /\ dispatched = {}

WatcherStep ==
    \/ poll_list
    \/ read_raises
    \/ \E renamed \in BOOLEAN : read_fails(renamed)
    \/ \E unlinked \in BOOLEAN : take_file(unlinked)
    \/ \E raised \in BOOLEAN : clear_session_ends(raised)
    \/ \E resume_token \in ResumeValues, raised \in BOOLEAN :
          get_resume_ends(resume_token, raised)
    \/ \E raised \in BOOLEAN : run_job_ends(raised)
    \/ poll_done
    \/ sleep_ends

NextInject ==
    \/ WatcherStep
    \/ cancel_watcher
    \/ \E f \in Files, content \in Contents : drop_file(f, content)

InjectSpec == InitInject /\ [][NextInject]_vars

\* the event loop runs the watcher whenever it can run, and no callback, and
\* no unlink, fails for ever
InjectFairSpec ==
    /\ InjectSpec
    /\ WF_vars(WatcherStep)
    /\ SF_vars(take_file(TRUE))
    /\ SF_vars(clear_session_ends(FALSE))
    /\ SF_vars(\E resume_token \in ResumeValues : get_resume_ends(resume_token, FALSE))
    /\ SF_vars(run_job_ends(FALSE))

\* one renderer, given any events in any order
InitRender ==
    /\ InitRunner /\ InitNewStore /\ InitNoTasks /\ InitNoConfig /\ InitNoInject
    /\ InitRenderer
    /\ InitNoAux
NextRender == \E event \in RenderEvents : note(event)
RenderSpec == InitRender /\ [][NextRender]_vars

\* texts built from resume lines and other lines, and read back
NextMixin ==
    \/ \E token \in MixinTokens : call_format_resume(token)
    \/ \E line \in OtherLines : write_line(line)
    \/ call_extract_resume
MixinSpec == Init /\ [][NextMixin]_vars

\* the reader started on a stream that will carry any bytes, in any chunks
InitReader ==
    /\ InitRunner /\ InitNewStore /\ InitNoTasks /\ InitNoConfig /\ InitNoInject /\ InitRenderer
    /\ mixin = IdleMixin /\ record = IdleRecord /\ reply = IdleReply
    /\ \E sent \in ByteSeqs(MaxBytes) : reader = Reader("read", sent, sent, <<>>, <<>>, 0)
NextReader ==
    \/ yield_line
    \/ \E n \in 1..MaxBytes : receive_chunk(n)
    \/ end_of_stream
ReaderSpec == InitReader /\ [][NextReader]_vars

\* the chats the commands are used on: sessions whose ids start alike, set
\* one after the other, the latest one active
CommandIds == {"ab", "abc", "ad"}
CommandArgs == CommandIds \cup {"", "a", "x", PaddedArg, Blanks}
SessionKeys == {NoKey, <<1, NoOwner>>}
CommandOrders ==
    {order \in UNION {[1..n -> CommandIds] : n \in 0..Cardinality(CommandIds)} :
        \A i, j \in DOMAIN order : order[i] = order[j] => i = j}
CommandChats ==
    {EmptyMap} \cup
    { [k \in {chat_key(1, NoOwner)} |->
          ChatState([i \in DOMAIN order |->
                        SessionInfo(order[i], Engine, NoneStr, NoneStr, i, i)],
                    IF order = <<>> THEN EmptyMap
                    ELSE MapSet(EmptyMap, Engine, order[Len(order)]),
                    NoLegacy)] : order \in CommandOrders }

InitCommands ==
    /\ InitRunner /\ InitNoTasks /\ InitNoConfig /\ InitNoInject /\ InitRenderer
    /\ InitNoAux
    /\ chats \in CommandChats
    /\ cwd = ProcessCwd
    /\ dirty = FALSE /\ clock = MAX_SESSIONS_PER_CHAT /\ nops = 0 /\ last = NoOp
NextCommands ==
    \E session_key \in SessionKeys, args_text \in CommandArgs :
        \/ handle_switch_command(session_key, args_text)
        \/ handle_delete_command(session_key, args_text)
        \/ handle_switch_callback(session_key, args_text)
CommandSpec == InitCommands /\ [][NextCommands]_vars

\* a record logged with any message of up to MaxPieces pieces
RECURSIVE Messages(_)
Messages(n) ==
    IF n = 0 THEN {<<>>}
    ELSE Messages(n - 1) \cup {Append(m, c) : m \in {x \in Messages(n - 1) : Len(x) = n - 1},
                                               c \in Pieces}
InitRecord ==
    /\ InitRunner /\ InitNewStore /\ InitNoTasks /\ InitNoConfig /\ InitNoInject /\ InitRenderer
    /\ mixin = IdleMixin /\ reader = IdleReader /\ reply = IdleReply
    /\ \E msg \in Messages(MaxPieces), error \in Formattings :
          record = Record(msg, error, msg, error, <<>>, "new", 0)
NextRecord == filter_record \/ emit_record
RedactSpec == InitRecord /\ [][NextRecord]_vars

-----------------------------------------------------------------------------
(* Properties of one invocation *)

Completeds(s) == SelectSeq(s, IsCompleted)
Starteds(s) == SelectSeq(s, IsStarted)
Warnings(s) == SelectSeq(s, IsWarning)
Last(s) == s[Len(s)]

Ended(i) == pc[i] \in {"done", "raised", "cancelled"}

\* C1, as stated: an invocation whose child ran and that ended, otherwise than
\* by its consumer's cancellation, has yielded exactly one Completed event,
\* and that event is the last one, whatever the child wrote and returned.
C1_Original ==
    \A i \in Invocations :
        (pc[i] \in {"done", "raised"} /\ child[i] \in {"exited", "reaped"})
            => (Len(Completeds(out[i])) = 1 /\ IsCompleted(Last(out[i])))

\* C1, amended: an invocation that ends by returning (stdout at its end, exit
\* code collected) has yielded exactly one Completed event, as its last
\* event; an invocation that ends with a fatal runtime error has yielded none.
C1_CompletedOnReturn ==
    \A i \in Invocations :
        /\ pc[i] = "done" => (Len(Completeds(out[i])) = 1 /\ IsCompleted(Last(out[i])))
        /\ pc[i] = "raised" => Completeds(out[i]) = <<>>

\* a failing child: events, then a non-zero exit code, then the return
C1_Witness ==
    /\ pc[1] = "done"
    /\ rc[1] # 0
    /\ ~did_emit_completed[1]
    /\ Len(out[1]) >= 3

\* C2: once a Completed event has been yielded the invocation yields nothing
\* more and raises no error, whatever is still pending, read or returned.
C2_NothingAfterCompleted ==
    [][\A i \in Invocations :
          Completeds(out[i]) # <<>> => (out'[i] = out[i] /\ pc'[i] # "raised")]_vars

\* Completed came first; a line with a mismatching session id was read after
\* it, the child returned 2, and the invocation returned with one event
C2_Witness ==
    /\ pc[1] = "done"
    /\ resume[1] = S1
    /\ out[1] = <<ChildCompleted>>
    /\ nlines[1] >= 2
    /\ raw_line[1] = Json(<<StartedEvent(Engine, S2)>>)
    /\ rc[1] = 2

-----------------------------------------------------------------------------
(* Properties of concurrent invocations *)

\* the token an invocation runs under: the one supplied, else the one learned
TokenOf(i) == IF resume[i] # NONE THEN resume[i] ELSE found_session[i]

\* between getting past the lock and ending
Active(i) == pc[i] \in {"spawn", "read", "emit", "wait_exit", "final"}

\* has spawned its child or yielded an event
Begun(i) == child[i] # "none" \/ out[i] # <<>>

\* C3: of two invocations given the same ResumeToken, at most one is past the
\* lock at a time; the one still waiting has neither spawned a child nor
\* yielded an event, and both have begun only if one of them has ended.
C3_ResumeLockLinearizes ==
    \A i, j \in Invocations :
        (i # j /\ resume[i] # NONE /\ resume[i] = resume[j]) =>
            /\ ~(Active(i) /\ Active(j))
            /\ pc[j] = "wait_resume" => ~Begun(j)
            /\ (Begun(i) /\ Begun(j)) => (Ended(i) \/ Ended(j))

\* the first invocation has yielded its last event but is not exhausted; the
\* second one, given the same token, is still waiting
C3_Witness ==
    /\ resume[1] = S1 /\ resume[2] = S1
    /\ pc[1] = "final" /\ events[1] = <<>> /\ out[1] # <<>>
    /\ pc[2] = "wait_resume"

C4_State ==
    \A i \in Invocations :
        (resume[i] = NONE /\ pc[i] # "idle") =>
            /\ found_session[i] = NONE => (lock[i] = NoLock /\ ~Waiting(i))
            /\ pc[i] = "wait_fresh" => Starteds(out[i]) = <<>>
            /\ (Starteds(out[i]) # <<>> /\ ~Ended(i)) =>
                   /\ acquired[i]
                   /\ owner[lock[i]] = i
                   /\ lock[i].key = LockKey(Starteds(out[i])[1].resume)

C4_Action ==
    \A i \in Invocations :
        /\ (pc[i] = "idle" /\ pc'[i] # "idle" /\ resume'[i] = NONE) => pc'[i] = "spawn"
        /\ (pc[i] = "wait_fresh" /\ owner[lock[i]] # i) => out'[i] = out[i]

\* C4: a run without resume goes straight to spawning its child and has no
\* lock before it learns its token; from the moment it has yielded its
\* SessionStarted until it ends it owns the lock of that token; and while it
\* waits for that lock, owned by another, it yields nothing.
C4_FreshRunLocksOnStart == []C4_State /\ [][C4_Action]_vars

\* a fresh run has yielded an action, then learned the token another
\* invocation holds the lock of, and waits
C4_Witness ==
    /\ resume[1] = NONE
    /\ pc[1] = "wait_fresh"
    /\ owner[lock[1]] = 2
    /\ out[1] = <<ChildAction>>

\* C5: an invocation waits on a session lock only while another invocation
\* that has not ended and runs under an equal token owns that lock.
C5_WaitsOnlyForEqualToken ==
    \A i \in Invocations :
        (Waiting(i) /\ owner[lock[i]] # i) =>
            /\ TokenOf(i) # NONE
            /\ \E j \in Invocations \ {i} :
                  /\ ~Ended(j)
                  /\ owner[lock[i]] = j
                  /\ TokenOf(j) = TokenOf(i)

\* a resumed run waits for a fresh run that learned the same token
C5_Witness ==
    /\ resume[1] = S1 /\ pc[1] = "wait_resume"
    /\ resume[2] = NONE /\ found_session[2] = S1 /\ pc[2] = "read"
    /\ owner[lock[1]] = 2

C6_State ==
    /\ ~foreign_release
    /\ \A i \in Invocations :
          Ended(i) =>
              /\ lock[i] = NoLock
              /\ \A l \in LockIds :
                    /\ owner[l] # i
                    /\ \A k \in 1..Len(waiters[l]) : waiters[l][k] # i

C6_Action ==
    \A i \in Invocations : Ended(i) => (out'[i] = out[i] /\ pc'[i] = pc[i])

\* C6: an invocation that has ended (returned, raised or cancelled) owns no
\* lock and queues for none, yields nothing more, and no release() was ever
\* called on a lock its caller did not own.
C6_EndsClean == []C6_State /\ [][C6_Action]_vars

\* a fresh run was cancelled while it waited for the lock the other holds
C6_Witness ==
    /\ pc[1] = "cancelled"
    /\ resume[1] = NONE /\ found_session[1] = S1 /\ Starteds(out[1]) = <<>>
    /\ Active(2) /\ lock[2] # NoLock /\ owner[lock[2]] = 2 /\ TokenOf(2) = S1

-----------------------------------------------------------------------------
(* Properties of session-identity validation and of error synthesis *)

\* the line in hand holds a SessionStarted that satisfies P
LineHasStarted(i, P(_)) ==
    \E k \in 1..Len(raw_line[i].events) :
        IsStarted(raw_line[i].events[k]) /\ P(raw_line[i].events[k])

\* the line in hand has been dealt with: nothing of it is pending
LineDone(i) == pc[i] \notin {"emit", "wait_fresh"}

\* the next event of `for evt in events` is a SessionStarted
StartedNext(i) == pc[i] = "emit" /\ IsStarted(Head(events[i]))

\* C7, as stated: with a resume supplied, once a line holding a SessionStarted
\* with another token has been dealt with, the invocation has ended with a
\* fatal runtime error (or was cancelled before).
C7_Original ==
    \A i \in Invocations :
        (resume[i] # NONE /\ LineDone(i)
            /\ LineHasStarted(i, LAMBDA e : e.resume # resume[i]))
            => pc[i] \in {"raised", "cancelled"}

C7_State ==
    \A i \in Invocations :
        /\ pc[i] = "raised" => Completeds(out[i]) = <<>>
        /\ resume[i] # NONE =>
              \A k \in 1..Len(out[i]) :
                  IsStarted(out[i][k]) => out[i][k].resume = resume[i]

C7_Action ==
    \A i \in Invocations :
        (resume[i] # NONE /\ StartedNext(i) /\ Head(events[i]).resume # resume[i])
            => (pc'[i] \in {"raised", "cancelled"} /\ out'[i] = out[i])

\* C7, amended: with a resume supplied, a SessionStarted with another token
\* that reaches the event loop (no Completed was yielded before it) ends the
\* invocation with a fatal runtime error unless the consumer cancels first;
\* it is not yielded, no SessionStarted with another token is ever yielded,
\* and an invocation that raised has yielded no Completed.
C7_MismatchIsFatal == []C7_State /\ [][C7_Action]_vars

\* resumed with s1; after some output the child named session s2
C7_Witness ==
    /\ pc[1] = "raised"
    /\ resume[1] = S1
    /\ out[1] # <<>>
    /\ raw_line[1] = Json(<<StartedEvent(Engine, S2)>>)

\* C8, as stated: once a line holding a SessionStarted of another engine, or
\* with a token other than the found session, has been dealt with, the
\* invocation has ended with a fatal runtime error (or was cancelled before).
C8_Original ==
    \A i \in Invocations :
        (LineDone(i) /\ pc[i] # "idle"
            /\ LineHasStarted(i, LAMBDA e :
                  e.engine # Engine \/ (found_session[i] # NONE /\ e.resume # found_session[i])))
            => pc[i] \in {"raised", "cancelled"}

C8_State ==
    \A i \in Invocations :
        /\ Len(Starteds(out[i])) <= 1
        /\ \A k \in 1..Len(out[i]) :
              IsStarted(out[i][k]) =>
                  (out[i][k].resume = found_session[i] /\ out[i][k].engine = Engine)
        /\ (found_session[i] # NONE /\ LineDone(i) /\ ~Ended(i)) => Starteds(out[i]) # <<>>

C8_Action ==
    \A i \in Invocations :
        StartedNext(i) =>
            LET e == Head(events[i])
                accepted == resume[i] = NONE \/ e.resume = resume[i]
            IN
            /\ (e.engine # Engine \/ (found_session[i] # NONE /\ e.resume # found_session[i]))
                  => (pc'[i] \in {"raised", "cancelled"} /\ out'[i] = out[i])
            /\ (e.engine = Engine /\ found_session[i] # NONE /\ e.resume = found_session[i])
                  => (pc'[i] \in {"emit", "read", "cancelled"} /\ out'[i] = out[i])
            /\ (e.engine = Engine /\ found_session[i] = NONE /\ accepted)
                  => \/ pc'[i] = "cancelled" /\ out'[i] = out[i]
                     \/ pc'[i] = "wait_fresh" /\ found_session'[i] = e.resume
                     \/ found_session'[i] = e.resume /\ out'[i] = Append(out[i], e)

\* C8, amended: at most one SessionStarted is yielded, and it carries the
\* found session.  Of the SessionStarted events that reach the event loop (no
\* Completed was yielded before them) the first is recorded and yielded, a
\* later one with an equal token is swallowed, and one of another engine or
\* with a token other than the found session ends the invocation with a
\* fatal runtime error, unless the consumer cancels first.
C8_OneStarted == []C8_State /\ [][C8_Action]_vars

\* a fresh run found session s1 and yielded it; then the child named s2
C8_Witness ==
    /\ pc[1] = "raised"
    /\ resume[1] = NONE
    /\ found_session[1] = S1
    /\ Len(Starteds(out[1])) = 1
    /\ raw_line[1] = Json(<<StartedEvent(Engine, S2)>>)

BadForms == {"invalid", "untranslatable"}

\* the warning a bad line stands for
WarningFor(form, e) ==
    /\ IsWarning(e) /\ e.phase = "completed" /\ ~e.ok
    /\ form = "invalid" => "line" \in e.detail
    /\ form = "untranslatable" => "error" \in e.detail

\* C9, as stated: once a line that is not valid JSON, or whose translation
\* raised, has been dealt with, the invocation has not raised and the last
\* event yielded is the warning of that line.
C9_Original ==
    \A i \in Invocations :
        (raw_line[i].form \in BadForms /\ pc[i] \in {"read", "wait_exit"})
            => (out[i] # <<>> /\ WarningFor(raw_line[i].form, Last(out[i])))

C9_State ==
    \A i \in Invocations :
        /\ (raw_line[i].form \in BadForms /\ ~did_emit_completed[i]
              /\ pc[i] \in {"read", "wait_exit"})
              => (out[i] # <<>> /\ WarningFor(raw_line[i].form, Last(out[i])))
        /\ raw_line[i].form \in BadForms \cup {"blank"} => pc[i] # "raised"
        /\ pc[i] \in {"read", "wait_exit"} => Len(Warnings(out[i])) = note_seq[i]

C9_Action ==
    \A i \in Invocations :
        /\ (nlines'[i] # nlines[i] /\ ~did_emit_completed[i]
              /\ raw_line'[i].form \in BadForms)
              => /\ pc'[i] = "emit"
                 /\ Len(events'[i]) = 1
                 /\ WarningFor(raw_line'[i].form, Head(events'[i]))
                 /\ out'[i] = out[i]
        /\ (pc[i] = "emit" /\ raw_line[i].form \in BadForms)
              => \/ pc'[i] = "cancelled" /\ out'[i] = out[i]
                 \/ pc'[i] = "read" /\ out'[i] = Append(out[i], Head(events[i]))
        /\ (nlines'[i] # nlines[i] /\ raw_line'[i].form = "blank")
              => (pc'[i] = "read" /\ events'[i] = <<>> /\ out'[i] = out[i])

\* C9, amended: a line that is not valid JSON, or whose translation raises,
\* and that is read before a Completed has been yielded, never ends the
\* invocation: it yields exactly one ActionCompleted of kind warning with
\* ok=false (detail.line resp. detail.error) before the next line is read,
\* and reading goes on; a blank line yields nothing.  (Read after a Completed,
\* such a line yields nothing.)
C9_BadLineWarns == []C9_State /\ [][C9_Action]_vars

\* `not-json`, then a result line, then exit 0
C9_Witness ==
    /\ pc[1] = "done"
    /\ Len(out[1]) = 2
    /\ WarningFor("invalid", out[1][1])
    /\ out[1][2] = ChildCompleted
    /\ rc[1] = 0

\* the events of an invocation that returned without a result event
C10_Tail(i) ==
    LET n == Len(out[i])
        c == out[i][n]
        failed == "codex failed (rc=" \o ToString(rc[i]) \o ")."
        SyntheticNote(e) == IsWarning(e) /\ e.message = failed
    IN
    /\ n >= 1
    /\ IsCompleted(c) /\ ~c.ok /\ c.answer = ""
    /\ c.resume = (IF found_session[i] # NONE THEN found_session[i] ELSE resume[i])
    /\ Len(Completeds(out[i])) = 1
    /\ rc[i] # 0 =>
          /\ c.error = failed
          /\ n >= 2 /\ SyntheticNote(out[i][n - 1]) /\ ~out[i][n - 1].ok
          /\ Len(SelectSeq(out[i], SyntheticNote)) = 1
          /\ Len(Warnings(out[i])) = note_seq[i]
    /\ rc[i] = 0 =>
          /\ c.error = "codex finished without a result event"
          /\ SelectSeq(out[i], SyntheticNote) = <<>>
          /\ Len(Warnings(out[i])) = note_seq[i]

\* C10: an invocation that returns without the child having produced a
\* Completed ends with one synthetic Completed{ok=false, answer ""} whose
\* resume is the found session, else the supplied resume; after a non-zero
\* exit code it names the code and follows exactly one warning note, after
\* exit code 0 it says 'finished without a result event' and no note is added.
C10_SyntheticCompleted ==
    \A i \in Invocations :
        (pc[i] = "done" /\ ~did_emit_completed[i]) => C10_Tail(i)

\* a fresh run found session s1, then the child exited with 2
C10_Witness ==
    /\ pc[1] = "done"
    /\ ~did_emit_completed[1]
    /\ resume[1] = NONE /\ found_session[1] = S1
    /\ rc[1] = 2

\* C11, as stated: an invocation whose child came up without its stdin, stdout
\* or stderr pipe still ends by yielding a synthetic Completed event with
\* ok = FALSE, and not with a raised error.
C11_Original ==
    \A i \in Invocations :
        (child[i] = "nopipes" /\ Ended(i))
            => /\ pc[i] = "done"
               /\ out[i] # <<>>
               /\ IsCompleted(Last(out[i])) /\ ~Last(out[i]).ok

-----------------------------------------------------------------------------
(* Properties of the chat session store *)

\* a step of the store: one operation
StoreStep == nops' # nops

\* the chat the latest operation left
LastChat == chats[last.chat]

C12_State ==
    last.op = "set_session_resume"
        => ResumeOf(chats, last.chat, last.engine) = ResumeToken(last.engine, last.resume)

C12_Get ==
    (/\ last.op = "set_session_resume"
     /\ last'.op = "get_session_resume"
     /\ last'.chat = last.chat /\ last'.engine = last.engine)
        => last'.ret = ResumeToken(last.engine, last.resume)

C12_Frame ==
    \A k \in DOMAIN chats : \A e \in Engines :
        (/\ StoreStep
         /\ ~HasLegacy(chats)
         /\ last'.op # "sync_startup_cwd"
         /\ last'.chat # k)
            => (k \in DOMAIN chats' /\ ResumeOf(chats', k, e) = ResumeOf(chats, k, e))

\* C12: once set_session_resume(chat, token) has completed,
\* get_session_resume(chat, token.engine) returns a ResumeToken with token's
\* engine and value; operations on other chats in between do not change what
\* it returns.
C12_SetThenGet == []C12_State /\ [][C12_Get /\ C12_Frame]_vars

\* a resume value that history holds under the other engine was set for
\* this one, and the get that followed returned it with the requested engine
C12_Witness ==
    /\ last.op = "get_session_resume"
    /\ last.ret = ResumeToken(OtherEngine, "h1")
    /\ HistoryGet(LastChat.history, "h1").engine = Engine

C13_Switch ==
    (StoreStep /\ last'.op = "switch_session") =>
        LET k == last'.chat
            r == last'.resume
            session == last'.ret
        IN IF session # NoSession
           THEN /\ session.resume = r
                /\ session = HistoryGet(chats'[k].history, r)
                /\ ActiveId(chats', k, session.engine) = r
                /\ session.updated_at >= session.created_at
                /\ (k \in DOMAIN chats /\ r \in Keys_of(chats[k].history))
                      => session.updated_at >= HistoryGet(chats[k].history, r).updated_at
           ELSE /\ chats' = migrate_if_needed(chats, clock')
                /\ (k \notin DOMAIN chats' \/ r \notin Keys_of(chats'[k].history))

C13_Get ==
    (/\ last.op = "switch_session"
     /\ last.ret # NoSession
     /\ last'.op = "get_active_session_id"
     /\ last'.chat = last.chat /\ last'.engine = last.ret.engine)
        => last'.ret = last.resume

SessionsOf(chat, engine) == {i \in 1..Len(chat.history) : chat.history[i].engine = engine}

C15_Prune ==
    (StoreStep /\ last'.op = "set_session_resume" /\ last'.chat \in DOMAIN chats) =>
        LET k == last'.chat
            E == last'.engine
            before == chats[k].history
            after == chats'[k].history
            active == MapGet(chats'[k].active, E)
            removed == {i \in 1..Len(before) : before[i].resume \notin Keys_of(after)}
            kept == {j \in 1..Len(after) : after[j].engine = E /\ after[j].resume # active}
        IN /\ active \in Keys_of(after)
           /\ \A i \in removed :
                /\ before[i].engine = E
                /\ before[i].resume # active
                /\ \A j \in kept : before[i].updated_at <= after[j].updated_at

\* C15: the sessions that a set_session_resume for engine E removes from
\* history are sessions of engine E, the active session of E is not among
\* them, and each had an updated_at no greater than that of every session
\* of E that is kept and is not the active one.
C15_PruneIsLru == [][C15_Prune]_vars

\* h1 is the first session in history but was used last: the set of a 21st
\* session evicted h2, the least recently used one
C15_Witness ==
    /\ last.op = "set_session_resume"
    /\ nops = 1
    /\ last.resume = "n1" /\ last.engine = Engine
    /\ "h1" \in Keys_of(LastChat.history)
    /\ "h2" \notin Keys_of(LastChat.history)
    /\ "k1" \in Keys_of(LastChat.history)

\* C16, as stated: after any sequence of store operations, with any tokens,
\* every value in a chat's active map is a key of its history, and the
\* SessionInfo it refers to has the engine that is the active key.
C16_Original ==
    \A k \in DOMAIN chats : \A e \in DOMAIN chats[k].active :
        /\ chats[k].active[e] \in Keys_of(chats[k].history)
        /\ HistoryGet(chats[k].history, chats[k].active[e]).engine = e

C17_Sync ==
    (StoreStep /\ last'.op = "sync_startup_cwd") =>
        LET p == normalized(last'.resume)
        IN /\ last'.ret = (cwd # NoneStr /\ cwd # p)
           /\ last'.ret => (chats' = EmptyMap /\ cwd' = p)
           /\ cwd = NoneStr => (cwd' = p /\ chats' = chats /\ ~last'.ret)
           /\ cwd = p => (UNCHANGED <<cwd, chats, dirty>> /\ ~last'.ret)

\* C17: sync_startup_cwd(p) returns true exactly when a cwd was recorded and
\* differs from the normalized p, and then no chat is left and the recorded
\* cwd is the normalized p; when no cwd was recorded it records p, keeps
\* every chat and returns false; when the recorded cwd is the normalized p
\* it changes nothing.
C17_SyncStartupCwd == [][C17_Sync]_vars

\* the store was started in another directory: its chats are gone
C17_Witness ==
    /\ last.op = "sync_startup_cwd"
    /\ nops = 1
    /\ last.ret = TRUE
    /\ cwd = "/x"
    /\ chats = EmptyMap

\* the chats as the migration that starts the step's operation leaves them
\* (for the operations that read no other time)
Migrated == migrate_if_needed(chats, clock')

ChatKeys == {chat_key(c[1], c[2]) : c \in Callers}

C18_Clear ==
    (StoreStep /\ last'.op = "clear_sessions" /\ last'.chat \in DOMAIN chats) =>
        LET k == last'.chat
        IN /\ chats'[k].active = EmptyMap
           /\ chats'[k].history = Migrated[k].history
           /\ \A j \in DOMAIN chats \ {k} : chats'[j] = Migrated[j]
           /\ \A e \in Engines : ResumeOf(chats', k, e) = NONE

C18_New ==
    (StoreStep /\ last'.op = "new_session" /\ last'.chat \in DOMAIN chats) =>
        LET k == last'.chat
            e == last'.engine
        IN /\ e \notin DOMAIN chats'[k].active
           /\ \A o \in Engines \ {e} :
                 MapGet(chats'[k].active, o) = MapGet(Migrated[k].active, o)
           /\ chats'[k].history = Migrated[k].history
           /\ \A j \in DOMAIN chats \ {k} : chats'[j] = Migrated[j]
           /\ ResumeOf(chats', k, e) = NONE

C18_Get ==
    (/\ last.op \in {"clear_sessions", "new_session"}
     /\ last'.op = "get_session_resume"
     /\ last'.chat = last.chat
     /\ (last.op = "clear_sessions" \/ last'.engine = last.engine))
        => last'.ret = NONE

C18_Until ==
    \A k \in ChatKeys : \A e \in Engines :
        (/\ StoreStep
         /\ ~HasLegacy(chats)
         /\ ResumeOf(chats, k, e) = NONE
         /\ ResumeOf(chats', k, e) # NONE)
            => (last'.op \in {"set_session_resume", "switch_session"} /\ last'.chat = k)

\* C18: clear_sessions leaves the chat's active map empty and
\* new_session(engine) removes active[engine] and no other pointer; both
\* leave history as it was; get_session_resume for a cleared engine then
\* returns None, and only a set_session_resume or a switch_session on the
\* chat ends that.
C18_ClearKeepsHistory == [][C18_Clear /\ C18_New /\ C18_Get /\ C18_Until]_vars

\* new_session for one engine on a full history, then get_session_resume
\* for it: None, while the other engine's pointer and all sessions are there
C18_Witness ==
    /\ last.op = "get_session_resume"
    /\ nops = 2
    /\ last.engine = Engine
    /\ last.ret = NONE
    /\ last.chat \in DOMAIN chats
    /\ DOMAIN LastChat.active = {OtherEngine}
    /\ Len(LastChat.history) = MAX_SESSIONS_PER_CHAT + 1

C19_Delete ==
    (StoreStep /\ last'.op = "delete_session") =>
        LET k == last'.chat
            r == last'.resume
        IN IF last'.ret
           THEN /\ k \in DOMAIN Migrated /\ r \in Keys_of(Migrated[k].history)
                /\ chats'[k].history = HistoryDel(Migrated[k].history, {r})
                /\ \A e \in Engines :
                      MapGet(chats'[k].active, e) =
                          IF MapGet(Migrated[k].active, e) = r THEN NoneStr
                          ELSE MapGet(Migrated[k].active, e)
                /\ \A j \in DOMAIN chats \ {k} : chats'[j] = Migrated[j]
           ELSE /\ chats' = Migrated
                /\ (k \notin DOMAIN Migrated \/ r \notin Keys_of(Migrated[k].history))

\* C19, as stated: delete_session(resume) on a resume that history holds
\* removes that entry and no other, clears every active pointer that held
\* the resume, leaves the other pointers as they were and returns true; on a
\* resume that history does not hold it returns false and changes nothing.
C19_Original == [][C19_Delete]_vars

C20_Migration ==
    (StoreStep /\ last'.op \in {"get_session_resume", "get_active_session_id"}) =>
        \A k \in DOMAIN chats :
            ~chats[k].sessions.none =>
                LET items == chats[k].sessions.items
                    chat == chats'[k]
                    entries == {n \in 1..Len(items) : items[n].resume # ""}
                IN /\ \A n \in entries :
                        /\ items[n].resume \in Keys_of(chat.history)
                        /\ MapGet(chat.active, items[n].engine) = items[n].resume
                   /\ Len(chat.history) = Len(chats[k].history) + Cardinality(entries)
                   /\ \A i \in 1..Len(chat.history) :
                        chat.history[i].created_at = chat.history[i].updated_at
                   /\ chat.sessions = NoLegacy
                   /\ migrate_chat_state(chat, clock' + 1) = chat

\* C20, as stated: the migration of a chat that carries the legacy `sessions`
\* mapping (seen after an operation that does nothing but migrate and read)
\* turns every entry engine -> {resume} into one history entry with
\* created_at = updated_at, registers it as active[engine], clears the
\* legacy field, and a second migration changes nothing.
C20_Original == [][C20_Migration]_vars

-----------------------------------------------------------------------------
(* Properties of the store under concurrent tasks *)

InBlock(t) == task[t].at \in {"locked", "upserted", "activated"}

-----------------------------------------------------------------------------
(* Properties of the config migrations *)

\* C22: migrate_config is idempotent: called again on the config a call that
\* raised nothing has left, it returns the empty list, raises nothing and
\* leaves the config as it is
C22_Again ==
    (migration.calls >= 1 /\ migration' # migration) =>
        /\ migration'.applied = <<>>
        /\ ~migration'.raised
        /\ config' = config
C22_Idempotent == [][C22_Again]_vars

\* a second call on a config whose first call applied both migrations
C22_Witness ==
    /\ migration.calls = 2
    /\ migration.first = <<"legacy-telegram", "topics-scope">>
    /\ migration.input.transports.telegram.topics.scope = Absent
    /\ config # migration.input

\* the config the first call was given, and what of it is legacy
Given == migration.input
GivenTelegram == Given.transports.telegram
GivenTopics == GivenTelegram.topics
HasLegacyKeys == Given.bot_token # Absent \/ Given.chat_id # Absent
HasMode ==
    /\ Given.transports.kind = "table" /\ GivenTelegram.kind = "table"
    /\ GivenTopics.kind = "table" /\ GivenTopics.mode # Absent
Kept(old, new) == IF old # Absent THEN old ELSE new

\* where the top-level keys went (both readings of C23 say the same of them)
LegacyKeysMoved ==
    /\ config.bot_token = Absent
    /\ config.chat_id = Absent
    /\ config.transports.telegram.bot_token = Kept(GivenTelegram.bot_token, Given.bot_token)
    /\ config.transports.telegram.chat_id = Kept(GivenTelegram.chat_id, Given.chat_id)
    /\ config.transport = Kept(Given.transport, "telegram")

\* C23 as stated: after migrate_config the top-level bot_token and chat_id are
\* gone and under transports.telegram (a value already there is kept),
\* transport is 'telegram' unless it was set, topics.mode is gone and
\* topics.scope is 'main' for multi_project_chat and 'projects' for
\* per_project_chat, and any other mode value raises a config error
C23_Original ==
    migration.calls >= 1 =>
        /\ (HasLegacyKeys /\ ~migration.raised) => LegacyKeysMoved
        /\ (HasMode /\ ~migration.raised) =>
              /\ config.transports.telegram.topics.mode = Absent
              /\ GivenTopics.mode = "multi_project_chat" =>
                    config.transports.telegram.topics.scope = "main"
              /\ GivenTopics.mode = "per_project_chat" =>
                    config.transports.telegram.topics.scope = "projects"
        /\ (HasMode /\ GivenTopics.mode \notin {"multi_project_chat", "per_project_chat"}) =>
              migration.raised

\* C23, amended: the same of the top-level keys; topics.mode is gone; when
\* topics had no scope, scope is 'main' for multi_project_chat and 'projects' for
\* per_project_chat, whitespace around the mode ignored, and any other mode
\* value raises a config error; when topics already had a scope, the scope is
\* kept and mode is removed whatever its value, without an error
C23_Migrated ==
    migration.calls >= 1 =>
        /\ (HasLegacyKeys /\ ~migration.raised) => LegacyKeysMoved
        /\ (HasMode /\ ~migration.raised) =>
              /\ config.transports.telegram.topics.mode = Absent
              /\ config.transports.telegram.topics.scope =
                    IF GivenTopics.scope # Absent THEN GivenTopics.scope
                    ELSE IF strip(GivenTopics.mode) = "multi_project_chat" THEN "main"
                    ELSE "projects"
        /\ HasMode =>
              (migration.raised <=>
                  /\ GivenTopics.scope = Absent
                  /\ \/ GivenTopics.mode = NotStr
                     \/ strip(GivenTopics.mode) \notin {"multi_project_chat", "per_project_chat"})

\* a config with both top-level keys, a bot_token already under
\* transports.telegram, and a topics table with mode and scope, migrated
C23_Witness ==
    /\ migration.calls = 1 /\ ~migration.raised
    /\ Given.bot_token = "T" /\ Given.chat_id = "42" /\ Given.transport = Absent
    /\ GivenTelegram.bot_token = "old" /\ GivenTelegram.chat_id = Absent
    /\ HasMode /\ GivenTopics.mode = "multi_project_chat" /\ GivenTopics.scope = "projects"
    /\ config.transports.telegram.bot_token = "old"
    /\ config.transports.telegram.chat_id = "42"
    /\ config.transports.telegram.topics.scope = "projects"

-----------------------------------------------------------------------------
(* Properties of the inject directory watcher *)

NameIndex(f) == CHOOSE i \in 1..Len(FileNames) : FileNames[i] = f
LogLen == Len(inject_log)

\* the files of one poll are handled in ascending name order
Ascending ==
    \A i \in 1..LogLen, j \in 1..LogLen :
        i < j => NameIndex(inject_log[i].fpath) <= NameIndex(inject_log[j].fpath)

\* nothing is done for another file between a call of run_job and its return
OneAtATime ==
    /\ \A i \in 1..LogLen :
          (inject_log[i].fn = "run_job" /\ i < LogLen) =>
              /\ inject_log[i + 1].fn \in {"returned", "error"}
              /\ inject_log[i + 1].fpath = inject_log[i].fpath
    /\ watcher.at = "run_job" => inject_log[LogLen].fn = "run_job"

\* the calls for the file in hand, from the latest back to the unlink: run_job
\* with the prefixed, trimmed text and the token get_resume returned, get_resume,
\* clear_session exactly if new_session is true, and before them `deletion`
CallsInOrder(deletion) ==
    LET n == LogLen
        before == IF watcher.payload.new_session THEN n - 3 ELSE n - 2
    IN /\ before >= 1
       /\ inject_log[n] = LogEntry("run_job", watcher.fpath,
                                   SYSTEM_PREFIX \o trim(watcher.payload.text), watcher.token)
       /\ inject_log[n - 1] = LogEntry("get_resume", watcher.fpath, "", NoneStr)
       /\ watcher.payload.new_session =>
              inject_log[n - 2] = LogEntry("clear_session", watcher.fpath, "", NoneStr)
       /\ inject_log[before].fpath = watcher.fpath
       /\ inject_log[before].fn \in deletion

\* C24: the files of a poll are handled one at a time in ascending name order;
\* for a dispatched file the watcher deletes the file, calls clear_session if
\* new_session is true, calls get_resume, then calls run_job with '[SYSTEM] ' +
\* the trimmed text and the token just fetched, in this order; nothing is done
\* for the next file before run_job has returned.  (Deleting is best effort:
\* the file is gone exactly if unlink raised no OSError.)
C24_Dispatch ==
    /\ Ascending
    /\ OneAtATime
    /\ watcher.at = "run_job" =>
          /\ CallsInOrder({"unlink", "unlink failed"})
          /\ (inject_log[LogLen - (IF watcher.payload.new_session THEN 3 ELSE 2)].fn = "unlink")
                <=> (inject_dir.json[watcher.fpath] = Gone)

\* run_job is running for the second file dispatched in one poll, a file with
\* new_session true, after the run_job for the first file has returned
C24_Witness ==
    /\ watcher.at = "run_job" /\ watcher.payload.new_session /\ watcher.token = "r1"
    /\ \E i \in 1..LogLen : inject_log[i].fn = "returned"
    /\ inject_log[LogLen].prompt = "[SYSTEM] go"
    /\ inject_dir.json[watcher.fpath] = Gone

\* the watcher takes the next file of the poll in hand
Handles == watcher.at = "file" /\ watcher.files # <<>> /\ watcher' # watcher
Unusable == HoldsNow.kind \in {"garbage", "unreadable", "binary"}
EmptyText == HoldsNow.kind = "object" /\ trim(HoldsNow.text) = ""

\* what the watcher has just done with the file, by its log
Did(fns) == inject_log' # inject_log /\ inject_log'[Len(inject_log')].fn \in fns
Removed(f) == inject_dir'.json[f] = Gone
UnlinkTried(f) ==
    \E i \in 1..Len(inject_log') :
        /\ i > Len(inject_log) /\ inject_log'[i].fpath = f
        /\ inject_log'[i].fn \in {"unlink", "unlink failed"}
        /\ (inject_log'[i].fn = "unlink") <=> Removed(f)

\* C25: a file that cannot be read or parsed as JSON is renamed to *.bad, a
\* file whose trimmed text is empty is deleted; neither leads to a call of
\* clear_session, get_resume or run_job, and the remaining files of the same
\* poll are still processed.  (Renamed and deleted are read as the attempts the
\* watcher makes: an OSError from rename or unlink leaves the file where it is.)
C25_Step ==
    (Handles /\ (Unusable \/ EmptyText)) =>
        /\ Unusable => /\ Did({"rename", "rename failed"})
                       /\ Did({"rename"}) <=> (Removed(InHand) /\ InHand \in inject_dir'.bad)
        /\ EmptyText => /\ UnlinkTried(InHand)
                        /\ InHand \notin inject_dir'.bad
        /\ watcher'.at = "file"
        /\ watcher'.files = Tail(watcher.files)
        /\ dispatched' = dispatched
C25_Original == [][C25_Step]_vars

\* a file the watcher can dispatch: a JSON object with a text that is not empty
Valid(f) == inject_dir.json[f].kind = "object" /\ trim(inject_dir.json[f].text) # ""

\* C26: an exception raised while a file is handled does not end the watcher:
\* it sleeps and polls again, so that every valid file still in the directory
\* is dispatched in the end, unless the watcher is cancelled
C26_Original ==
    \A f \in Files :
        Valid(f) ~> (f \in dispatched \/ ~Valid(f) \/ watcher.at = "cancelled")

-----------------------------------------------------------------------------
(* Properties of the progress renderer *)

Lines == renderer.recent
NLines == Len(renderer.recent)
Noting == noted' # noted
Given_event == noted'.event
IsAction(event) == event.type \in {"action.started", "action.completed"}

\* the latest line of recent_actions that belongs to the id, 0 if none does
LatestLine(id) ==
    IF \E i \in 1..NLines : Lines[i].id = id
    THEN CHOOSE i \in 1..NLines :
            Lines[i].id = id /\ \A j \in 1..NLines : Lines[j].id = id => j <= i
    ELSE 0

\* a line was appended by the step: the count went up by one and the new last
\* line renders the event, after the lines there were, less the first one if
\* the deque was full
Appended ==
    LET kept == IF NLines >= max_actions THEN Tail(Lines) ELSE Lines
    IN /\ renderer'.action_count = renderer.action_count + 1
       /\ Len(renderer'.recent) = Len(kept) + 1
       /\ \A i \in 1..Len(kept) : renderer'.recent[i] = kept[i]
       /\ renderer'.recent[Len(kept) + 1].line = render_line(Given_event)
       /\ renderer'.recent[Len(kept) + 1].id = Given_event.id

\* the line at position i was replaced where it is: no line more or less, the
\* other lines as they were, the count as it was
ReplacedAt(i) ==
    /\ renderer'.action_count = renderer.action_count
    /\ Len(renderer'.recent) = NLines
    /\ \A j \in 1..NLines : j # i => renderer'.recent[j] = Lines[j]
    /\ renderer'.recent[i].line = render_line(Given_event)
    /\ renderer'.recent[i].id = Given_event.id

\* C27: recent_actions holds at most max_actions lines, the lines of the
\* actions appended last, in the order they arrived; an id is remembered
\* exactly while a line of it is in the deque, so the id of a line dropped from
\* the full deque is forgotten
C27_State ==
    /\ NLines <= max_actions
    /\ \A i \in 1..NLines : Lines[i].step = renderer.action_count - NLines + i
    /\ \A id \in ActionIds : renderer.seen_action_ids[id] = LatestLine(id)
C27_Append ==
    (Noting /\ renderer'.action_count # renderer.action_count /\ NLines >= max_actions) =>
        /\ Len(renderer'.recent) = max_actions
        /\ \A i \in 1..(max_actions - 1) : renderer'.recent[i] = Lines[i + 1]
C27_Clamped == []C27_State /\ [][C27_Append]_vars

\* more actions than max_actions were appended, and the id of a dropped line
\* has no line any more
C27_Witness ==
    /\ NLines = max_actions
    /\ renderer.action_count > max_actions
    /\ \E id \in ActionIds : renderer.seen_action_ids[id] = NotSeenId
    /\ Lines[1].id # Lines[2].id

\* C28 as stated: an ActionStarted or ActionCompleted whose id is resident in
\* recent_actions replaces the line of that action in place: position kept,
\* no line more, action_count not incremented
C28_Resident ==
    (Noting /\ IsAction(Given_event) /\ LatestLine(Given_event.id) # 0) =>
        ReplacedAt(LatestLine(Given_event.id))
C28_Open ==
    (/\ Noting /\ IsAction(Given_event)
     /\ LatestLine(Given_event.id) # 0
     /\ ~Lines[LatestLine(Given_event.id)].done) =>
        ReplacedAt(LatestLine(Given_event.id))
C29_Step ==
    /\ (/\ Noting /\ Given_event.type = "action.started"
        /\ LatestLine(Given_event.id) # 0
        /\ Lines[LatestLine(Given_event.id)].done) => Appended
    /\ (/\ Noting /\ Given_event.type = "action.completed"
        /\ Cardinality({i \in 1..NLines : Lines[i].id = Given_event.id}) > 1) =>
            /\ ReplacedAt(LatestLine(Given_event.id))
            /\ renderer'.recent[LatestLine(Given_event.id)].done
C29_StartedAgain == [][C29_Step]_vars

\* started, completed, started and completed under one id: two completed
\* lines, the first command before the second
C29_Witness ==
    /\ noted.n = 4 /\ noted.event.type = "action.completed"
    /\ renderer.action_count = 2 /\ NLines = 2
    /\ Lines[1].id = "dup" /\ Lines[2].id = "dup"
    /\ Lines[1].line = "ok echo one" /\ Lines[2].line = "ok echo two"

\* C30: action_count changes only when a line is appended, and then by one;
\* SessionStarted records last_resume and last_title and reports a change
\* without a new action; Completed changes nothing; an ActionCompleted whose id
\* is not resident appends a line; an event of unknown kind changes nothing and
\* note_event returns false
C30_Step ==
    Noting =>
        /\ (renderer'.action_count # renderer.action_count) <=> Appended
        /\ renderer'.recent # Lines => IsAction(Given_event)
        /\ Given_event.type = "session.started" =>
              /\ renderer'.last_resume = Given_event.resume
              /\ renderer'.last_title = Given_event.title
              /\ noted'.changed
              /\ renderer'.action_count = renderer.action_count
              /\ renderer'.recent = Lines
        /\ Given_event.type = "completed" => renderer' = renderer
        /\ (Given_event.type = "action.completed" /\ LatestLine(Given_event.id) = 0) =>
              Appended /\ noted'.changed
        /\ Given_event.type = "mystery" => renderer' = renderer /\ ~noted'.changed
C30_Counts == [][C30_Step]_vars

\* a session has started after two actions, one of them an orphan completion,
\* and the count is still two
C30_Witness ==
    /\ noted.n = 3 /\ noted.event.type = "session.started" /\ noted.changed
    /\ renderer.action_count = 2 /\ NLines = 2
    /\ renderer.last_resume = S1 /\ renderer.last_title = "Codex"
    /\ Lines[2].done /\ Lines[2].id # Lines[1].id

(***************************************************************************)
(* C31                                                                     *)
(***************************************************************************)

\* the message holds `bot<digits>:<token>`, or a bare `<digits>:<token>`
\* with a token of TokenMin characters or more; bare: the digits do not
\* continue a word
HasToken(m) ==
    \E i, j \in 1..Len(m) :
        /\ m[i] = Bot /\ i < j /\ \A x \in (i + 1)..j : IsDigit(m[x])
        /\ j + 2 <= Len(m) /\ m[j + 1] = Colon /\ IsTokenChar(m[j + 2])
HasBareToken(m) ==
    \E i, j, k \in 1..Len(m) :
        /\ i <= j /\ \A x \in i..j : IsDigit(m[x])
        /\ i = 1 \/ ~IsWordChar(m[i - 1])
        /\ j + 2 <= k /\ m[j + 1] = Colon /\ \A x \in (j + 2)..k : IsTokenChar(m[x])
        /\ SizeOf(m, j + 2, k) >= TokenMin

\* C31, as stated: a record that has passed the filter has no Telegram token
\* in its message, neither `bot<digits>:<token>` nor a bare `<digits>:<token>`
\* of ten token characters or more; the filter applied twice gives what it
\* gives applied once; and a record whose message formatting fails is
\* passed through unaltered.
C31_Original ==
    record.calls >= 1 =>
        /\ (record.error = "ok" /\ record.at \in {"passed", "emitted"}) =>
              /\ ~HasToken(record.msg)
              /\ ~HasBareToken(record.msg)
              /\ record.msg = record.first
        /\ record.error # "ok" =>
              /\ record.at \in {"passed", "emitted"}
              /\ record.msg = record.given /\ record.args = record.error

(***************************************************************************)
(* C32, C39                                                                *)
(***************************************************************************)

\* the chat the commands are given in, and the ids in its history
CommandKey == chat_key(1, NoOwner)
IdsIn(chs) ==
    IF CommandKey \in DOMAIN chs
    THEN {chs[CommandKey].history[i].resume : i \in 1..Len(chs[CommandKey].history)}
    ELSE {}

\* the prefix the handler of this step looked for, and the ids that start with it
GivenPrefix ==
    IF reply'.command = "callback" THEN reply'.arg ELSE strip_args(reply'.arg)
Matches == {id \in IdsIn(chats) : startswith(id, GivenPrefix)}

\* the handler of this step was given a session key
Tracked == reply'.text # "session tracking not available."

\* C32, as stated: in /switch, /delete and the switch-button callback a
\* session is selected by id prefix only when exactly one session of the
\* chat has an id that starts with the prefix; when several match, an error
\* is replied and neither the active pointers nor the history change (the
\* error for a command without argument is the usage text).
C32_Step ==
    /\ reply'.session # NoneStr => Matches = {reply'.session}
    /\ (Tracked /\ Cardinality(Matches) > 1) =>
          /\ reply'.text \in {"multiple sessions match", "usage"}
          /\ chats' = chats

C32_Original == [][C32_Step]_vars

\* C39, as stated: a session's complete id given to /switch or /delete
\* always selects that session, whatever other sessions the chat has.
C39_Selected ==
    (/\ Tracked
     /\ reply'.command \in {"switch", "delete"}
     /\ strip_args(reply'.arg) \in IdsIn(chats))
        => reply'.session = strip_args(reply'.arg)

C39_Original == [][C39_Selected]_vars

\* C39, amended: a session's complete id given to /switch or /delete
\* selects exactly that session (it becomes the active one of its engine,
\* or it alone leaves the history), whatever other sessions the chat has,
\* unless the id of another session starts with that id; then the command
\* replies that multiple sessions match and changes nothing.
C39_Step ==
    (/\ Tracked
     /\ reply'.command \in {"switch", "delete"}
     /\ strip_args(reply'.arg) \in IdsIn(chats))
        => LET id == strip_args(reply'.arg)
           IN IF \E other \in IdsIn(chats) \ {id} : startswith(other, id)
              THEN /\ reply'.text = "multiple sessions match"
                   /\ reply'.session = NoneStr
                   /\ chats' = chats
              ELSE /\ reply'.session = id
                   /\ reply'.command = "switch" =>
                         /\ MapGet(chats'[CommandKey].active, Engine) = id
                         /\ IdsIn(chats') = IdsIn(chats)
                   /\ reply'.command = "delete" =>
                         /\ IdsIn(chats') = IdsIn(chats) \ {id}
                         /\ MapGet(chats'[CommandKey].active, Engine) # id

C39_FullId == [][C39_Step]_vars

\* the complete id abc was given to /switch while ab and ad were sessions
\* too, and abc is the active session now
C39_Witness ==
    /\ reply.command = "switch"
    /\ reply.arg = "abc"
    /\ reply.session = "abc"
    /\ IdsIn(chats) = CommandIds
    /\ MapGet(chats[CommandKey].active, Engine) = "abc"
    /\ last.op = "switch_session"

(***************************************************************************)
(* C33                                                                     *)
(***************************************************************************)

\* the lines of the text that format_resume wrote
ResumeLines == {i \in 1..Len(mixin.text) : mixin.origin[i] # NONE}
LastResumeLine == CHOOSE i \in ResumeLines : \A j \in ResumeLines : j <= i

Newlines == {i \in 1..Len(reader.sent) : reader.sent[i] = NL}
NthNewline(k) == CHOOSE i \in Newlines : Cardinality({j \in Newlines : j <= i}) = k
Records ==
    [k \in 1..Cardinality(Newlines) |->
        SubSeq(reader.sent, (IF k = 1 THEN 0 ELSE NthNewline(k - 1)) + 1,
               NthNewline(k) - 1)]

\* C35: the line reader yields, in order, exactly the newline-terminated
\* records of the byte stream with the newline removed, however the bytes
\* are split into chunks; the bytes after the last newline are never yielded.
C35_Lines ==
    /\ Len(reader.lines) <= Len(Records)
    /\ \A k \in 1..Len(reader.lines) : reader.lines[k] = Records[k]
    /\ reader.at = "done" => reader.lines = Records

\* two records and a tail without newline, received in three chunks or more
C35_Witness ==
    /\ reader.at = "done"
    /\ Len(reader.lines) = 2
    /\ reader.lines[1] # <<>>
    /\ reader.sent[Len(reader.sent)] # NL
    /\ reader.chunks >= 3

(***************************************************************************)
(* C34                                                                     *)
(***************************************************************************)

\* the session that set_session_resume was called for, before and after
InLegacy(chs, k, r) ==
    /\ k \in DOMAIN chs
    /\ ~chs[k].sessions.none
    /\ \E i \in 1..Len(chs[k].sessions.items) : chs[k].sessions.items[i].resume = r
Stored(chs, k, r) == k \in DOMAIN chs /\ r \in Keys_of(chs[k].history)

\* C34: set_session_resume never rewrites a session's origin.  For a resume
\* value the chat did not have, the call stores created_at = updated_at (the
\* time of the call) and a first_message of at most 100 characters; for a
\* resume value in the chat's history, created_at and engine are unchanged,
\* updated_at does not decrease, and a first_message that is there stays.
C34_Step ==
    (StoreStep /\ last'.op = "set_session_resume") =>
        LET k == last'.chat
            r == last'.resume
        IN /\ Stored(chats', k, r)
           /\ LET after == HistoryGet(chats'[k].history, r)
              IN /\ after.first_message # LongMessage
                 /\ IF Stored(chats, k, r)
                    THEN LET before == HistoryGet(chats[k].history, r)
                         IN /\ after.created_at = before.created_at
                            /\ after.engine = before.engine
                            /\ after.updated_at >= before.updated_at
                            /\ after.updated_at = clock'
                            /\ before.first_message # NoneStr
                                  => after.first_message = before.first_message
                    ELSE /\ after.updated_at = clock'
                         /\ after.created_at <= after.updated_at
                         /\ ~InLegacy(chats, k, r)
                               => /\ after.created_at = after.updated_at
                                  /\ after.engine = last'.engine

KeyChatIds == {1, -1001}
KeyOwnerIds == {NoOwner, 0, 7}

C38_Injective ==
    \A c1, c2 \in KeyChatIds \X KeyOwnerIds :
        chat_key(c1[1], c1[2]) = chat_key(c2[1], c2[2]) => c1 = c2

\* the entry of each caller is the one stored under its own key, and an
\* operation (sync_startup_cwd apart) leaves the history and active of every
\* other key as they were once the legacy `sessions` fields were migrated
C38_Step ==
    (StoreStep /\ last'.op # "sync_startup_cwd") =>
        /\ last'.chat \in ChatKeys
        /\ DOMAIN chats' \ {last'.chat} = DOMAIN chats \ {last'.chat}
        /\ \E tm \in MigrationReadings :
              \A k \in DOMAIN chats \ {last'.chat} :
                 /\ chats'[k].history = migrate_if_needed(chats, tm)[k].history
                 /\ chats'[k].active = migrate_if_needed(chats, tm)[k].active

\* C38: every store operation on one chat key leaves the history and active
\* maps of every other chat key unchanged (sync_startup_cwd excepted), and
\* two different chat keys, owner None against any owner id included, are
\* never stored under the same entry.
C38_Isolated == []C38_Injective /\ [][C38_Step]_vars

\* two chats are stored, and the latest operation changed one of them
C38_Witness ==
    /\ nops = 2
    /\ last.op \in {"set_session_resume", "delete_session", "new_session"}
    /\ DOMAIN chats = ChatKeys
    /\ Cardinality(ChatKeys) = 2
    /\ \E k \in ChatKeys \ {last.chat} : chats[k].history # <<>>
    /\ LastChat.history # <<>>

(***************************************************************************)
(* C40                                                                     *)
(***************************************************************************)

\* C40: the ids of the warning notes an invocation has yielded are
\* '<tag>.note.1', '<tag>.note.2', ... in the order they were yielded, with
\* no repeat and no gap, whatever lines and exit code caused them, and each
\* invocation counts from 1.
C40_Numbered ==
    \A i \in Invocations :
        LET notes == Warnings(out[i])
        IN \A k \in 1..Len(notes) : notes[k].id = tag \o ".note." \o ToString(k)

\* notes of three causes, the latest for the exit code
C40_Witness ==
    /\ Len(Warnings(out[1])) = 3
    /\ pc[1] = "done"
    /\ rc[1] # 0
    /\ \E k \in {1, 2} : Warnings(out[1])[k].detail = {"line"}
    /\ \E k \in {1, 2} : Warnings(out[1])[k].detail = {"error", "type"}

(***************************************************************************)
(* C36, C37                                                                *)
(***************************************************************************)

\* run_job is called for the file f in this step
Dispatches(f) ==
    watcher.at = "get_resume" /\ watcher'.at = "run_job" /\ watcher.fpath = f

\* the file f is taken in hand in this step: read, parsed and unlinked
Takes(f) ==
    /\ watcher.at = "file"
    /\ \E i \in 1..Len(inject_log') :
          /\ i > Len(inject_log) /\ inject_log'[i].fpath = f
          /\ inject_log'[i].fn \in {"unlink", "unlink failed"}

\* the unlink calls for f that the watcher has made in this poll
UnlinkCalls(f) ==
    {i \in 1..Len(inject_log') :
        inject_log'[i].fpath = f /\ inject_log'[i].fn \in {"unlink", "unlink failed"}}

\* C37, as stated: a file is gone from the directory when its prompt is
\* dispatched, and no file's prompt is dispatched a second time, whatever
\* run_job and the removal of the file do.
C37_AtMostOnce ==
    \A f \in Files : Dispatches(f) => (inject_dir.json[f] = Gone /\ f \notin dispatched)

C37_Original == [][C37_AtMostOnce]_vars

\* C37, amended: every successfully parsed file is unlinked before its prompt
\* is dispatched, and when the unlink succeeds the file is gone before
\* run_job is called and is never taken in hand again, so across any number
\* of polls and any failures of run_job its prompt is not dispatched again;
\* when the unlink fails the file is dispatched all the same and stays.
C37_Step ==
    \A f \in Files :
        /\ Takes(f) => inject_dir.json[f] # Gone
        /\ Dispatches(f) =>
              /\ UnlinkCalls(f) # {}
              /\ \A i \in UnlinkCalls(f) :
                    (inject_log'[i].fn = "unlink") <=> (inject_dir.json[f] = Gone)

C37_RemovedFirst == [][C37_Step]_vars

\* run_job is running for a file whose unlink failed, after a poll in which
\* another file was removed and dispatched
C37_Witness ==
    /\ watcher.at = "run_job"
    /\ inject_dir.json[watcher.fpath] # Gone
    /\ \E f \in dispatched \ {watcher.fpath} :
          /\ inject_dir.json[f] = Gone
          /\ \A i \in 1..Len(inject_log) : inject_log[i].fpath # f

\* the session locks the invocation i owns
Owned(i) == {l \in LockIds : owner[l] = i}

\* the invocation i becomes resp. ceases to be the owner of the lock l
Gains(i, l) == owner[l] # i /\ owner'[l] = i
Loses(i, l) == owner[l] = i /\ owner'[l] # i

\* an invocation becomes the owner of a lock only while it lives, owns none
\* and has owned none (it is the lock its frame refers to), and it ceases to
\* be the owner only by ending
C36_Once ==
    \A i \in Invocations : \A l \in LockIds :
        /\ Gains(i, l) =>
              /\ Owned(i) = {} /\ ~acquired[i] /\ ~Ended(i)
              /\ lock'[i] = l \/ (Waiting(i) /\ lock[i] = l /\ pc'[i] = "cancelled")
        /\ Loses(i, l) => (~Ended(i) /\ Ended(i)')
        /\ Ended(i) => Ended(i)'

\* C36: session locks never deadlock: an invocation owns at most one session
\* lock at a time and becomes the owner of at most one in its life, and when
\* every child exits in the end and every consumer drains its sequence, an
\* invocation that waits for a session lock gets it and ends (unless its own
\* consumer is cancelled while it waits, and then it ends at once).
C36_NoDeadlock ==
    /\ [](\A i \in Invocations : Cardinality(Owned(i)) <= 1)
    /\ [][C36_Once]_vars
    /\ \A i \in Invocations :
          /\ Waiting(i) ~> (acquired[i] \/ pc[i] = "cancelled")
          /\ Waiting(i) ~> Ended(i)
          /\ acquired[i] ~> Ended(i)

\* a run without resume that had to wait for the lock of the session its
\* child announced, made by an invocation that has returned since, owns the
\* lock and is yielding its last events
C36_Witness ==
    \E i \in Invocations : \E j \in Invocations \ {i} :
        /\ resume[i] = NONE /\ pc[i] = "final"
        /\ acquired[i] /\ owner[lock[i]] = i /\ lock[i].by = j
        /\ pc[j] = "done"

====
